---- MODULE Spec2Model ----
(***************************************************************************)
(* Model of the lesson-template validator (tools/check.py).                *)
(*                                                                         *)
(* Text is modelled as sequences of tokens: a title is the sequence of its *)
(* words, a link address or a file path the sequence of its parts          *)
(* ("lesson/", "target", ".html", "#", "intro").  A Markdown document is a *)
(* sequence of lines, one block per line; the parser groups consecutive    *)
(* quoted lines into one BlockQuote.                                       *)
(***************************************************************************)
EXTENDS Integers, Sequences, FiniteSets, TLC

VARIABLES
    template,   \* name of the validator class in use (key of LESSON_TEMPLATES)
    filename,   \* self.filename: path of the document, or NoFile for a string
    markdown,   \* self.markdown: the raw text, a sequence of lines
    fs,         \* the file system: path -> raw text of the file
    pc,         \* position inside validate()
    tests,      \* results of the sub-checks run so far
    result,     \* what validate() returned
    log,        \* diagnostics logged so far
    fsAccess,   \* paths handed to os.path.isfile / open by the link check
    prev,       \* sub-check results of the previous run (after an edit)
    invocation, \* how the program was entered: [entry, paths, template, listing]
    mpc,        \* position inside main / validate_folder / validate_single
    files_to_validate,  \* files still to be handed to validate_single
    dirs_to_validate,   \* directories named on the command line
    all_valid,  \* the running conjunction of main / validate_folder
    exit_status,        \* <<>> while running, <<status>> once the process ended
    returned,   \* what validate_folder / validate_single returned
    calls,      \* the calls of validate_single that ended, in order
    main_log,   \* diagnostics logged outside the validator
    reader,     \* extract(): the input lines
    position,   \* extract(): number of lines read so far
    echo,       \* extract(): the echo flag
    writer,     \* extract(): the lines written so far
    epc         \* extract(): "idle", "loop" or "done"

driverVars ==
    <<invocation, mpc, files_to_validate, dirs_to_validate, all_valid, exit_status,
      returned, calls, main_log>>

extractVars == <<reader, position, echo, writer, epc>>

vars ==
    <<template, filename, markdown, fs, pc, tests, result, log, fsAccess, prev,
      invocation, mpc, files_to_validate, dirs_to_validate, all_valid, exit_status,
      returned, calls, main_log, reader, position, echo, writer, epc>>

----------------------------------------------------------------------------
(* Bounds of the explored inputs *)

MaxHeadings == 3
MaxBoxes == 2
MaxLinks == 2
MaxGlossaryNodes == 3
MaxArgs == 2
MaxMarkerLines == 3
MaxCycleLinks == 2
MaxLines == 3

----------------------------------------------------------------------------
(* Generic helpers *)

Range(s) == {s[i] : i \in 1..Len(s)}

RECURSIVE SeqsUpTo(_, _)
SeqsUpTo(S, n) ==
    IF n = 0 THEN {<<>>}
    ELSE LET shorter == SeqsUpTo(S, n - 1)
         IN  shorter \cup {Append(s, x) : s \in {t \in shorter : Len(t) = n - 1}, x \in S}

RECURSIVE Flatten(_)
Flatten(ss) == IF ss = <<>> THEN <<>> ELSE Head(ss) \o Flatten(Tail(ss))

Max2(a, b) == IF a >= b THEN a ELSE b

NoFile == <<"None">>      \* filename=None
NoType == "None"          \* a box without a class
Unrun == "unrun"          \* a sub-check that has not returned

Diag(msg, arg, line) == [msg |-> msg, arg |-> arg, line |-> line]

----------------------------------------------------------------------------
(* Letter case.  Only the tokens that exist in several capitalisations are *)
(* listed; every other token of the model is its own lower-case form.      *)

Lower(t) ==
    CASE t = "FIXME" -> "fixme"
      [] t = "FiXmE" -> "fixme"
      [] t = "(FIXME)." -> "(fixme)."
      [] t = "HTTP://" -> "http://"
      [] t = "Https://" -> "https://"
      [] t = "FTP://" -> "ftp://"
      [] t = "MAILTO:" -> "mailto:"
      [] t = ".HTML" -> ".html"
      [] t = "Key" -> "key"
      [] t = "Word" -> "word"
      [] t = "Glossary" -> "glossary"
      [] t = "Topics" -> "topics"
      [] t = "Other" -> "other"
      [] t = "Resources" -> "resources"
      [] t = "Legend" -> "legend"
      [] t = "Overall" -> "overall"
      [] t = "Extra" -> "extra"
      [] t = "Intro" -> "intro"
      [] OTHER -> t

----------------------------------------------------------------------------
(* Raw Markdown lines *)

Line(q, kind, level, words, cls, links, key, value) ==
    [q |-> q, kind |-> kind, level |-> level, words |-> words, cls |-> cls,
     links |-> links, key |-> key, value |-> value]

RuleLine == Line(FALSE, "Rule", 0, <<>>, <<>>, <<>>, "", "")
BlankLine == Line(FALSE, "Blank", 0, <<>>, <<>>, <<>>, "", "")
YamlLine(k, v) == Line(FALSE, "Yaml", 0, <<>>, <<>>, <<>>, k, v)
NotYamlLine == Line(FALSE, "NotYaml", 0, <<"text">>, <<>>, <<>>, "", "")
HeaderLine(level, words) == Line(FALSE, "Header", level, words, <<>>, <<>>, "", "")
ParaLine(words, links) == Line(FALSE, "Para", 0, words, <<>>, links, "", "")
BulletLine(words, links) == Line(FALSE, "BulletList", 0, words, <<>>, links, "", "")
DefLine(words) == Line(FALSE, "DefinitionList", 0, words, <<>>, <<>>, "", "")
Quoted(l) == [l EXCEPT !.q = TRUE]
BoxHeaderLine(level, words, cls) == Line(TRUE, "Header", level, words, cls, <<>>, "", "")

(* every token written on a raw line *)
LineTokens(l) ==
    Range(l.words) \cup Range(l.cls) \cup Range(Flatten(l.links)) \cup {l.key, l.value}

----------------------------------------------------------------------------
(* Python truth values and exceptions, as the outcome of a sub-check *)

True == "True"
False == "False"
IndexError == "IndexError"
TypeError == "TypeError"
IOError == "IOError"

Bool(b) == IF b THEN True ELSE False
IsRaise(r) == r \in {IndexError, TypeError, IOError}

----------------------------------------------------------------------------
(* filters/common.py and validation_helpers.py *)

SlugToken(t) == IF t = "Learner's" THEN "learners" ELSE Lower(t)

(* lowercase, spaces become "-", quote characters are removed *)
RECURSIVE text2fragment_identifier(_)
text2fragment_identifier(words) ==
    IF words = <<>> THEN <<>>
    ELSE IF Len(words) = 1 THEN <<SlugToken(words[1])>>
    ELSE <<SlugToken(words[1]), "-">> \o text2fragment_identifier(Tail(words))

NumericLiterals == {"30", "1.5"}

is_str(text) == text # ""
is_numeric(text) == text \in NumericLiterals

ApplyValidator(name, text) ==
    IF name = "is_numeric" THEN is_numeric(text) ELSE is_str(text)

----------------------------------------------------------------------------
(* The parsed document (vh.PandocAstHelper).  Nodes are records            *)
(* [t, level, title, cls, links, c]; only a BlockQuote has children.       *)

Node(l) ==
    [t |-> IF l.kind \in {"Rule", "Yaml", "NotYaml"} THEN "HorizontalRule" ELSE l.kind,
     level |-> l.level, title |-> l.words, cls |-> l.cls, links |-> l.links, c |-> <<>>]

BlockQuote(children) ==
    [t |-> "BlockQuote", level |-> 0, title |-> <<>>, cls |-> <<>>, links |-> <<>>,
     c |-> children]

(* number of leading quoted lines *)
RECURSIVE QuoteRun(_)
QuoteRun(ls) ==
    IF ls = <<>> \/ ~Head(ls).q THEN 0 ELSE 1 + QuoteRun(Tail(ls))

RECURSIVE Blocks(_)
Blocks(ls) ==
    IF ls = <<>> THEN <<>>
    ELSE IF Head(ls).kind = "Blank" THEN Blocks(Tail(ls))
    ELSE IF Head(ls).q
         THEN LET n == QuoteRun(ls)
              IN  <<BlockQuote([i \in 1..n |-> Node(ls[i])])>>
                      \o Blocks(SubSeq(ls, n + 1, Len(ls)))
    ELSE <<Node(Head(ls))>> \o Blocks(Tail(ls))

(* the front matter is the block between a rule on line 1 and the next rule *)
HasYaml(md) ==
    /\ Len(md) >= 2
    /\ md[1].kind = "Rule"
    /\ \E k \in 2..Len(md) : md[k].kind = "Rule"

YamlEnd(md) == CHOOSE k \in 2..Len(md) :
    md[k].kind = "Rule" /\ \A j \in 2..(k - 1) : md[j].kind # "Rule"

YamlIsDict(md) == \A j \in 2..(YamlEnd(md) - 1) : md[j].kind = "Yaml"

ParseHeader(md) ==
    IF HasYaml(md) /\ YamlIsDict(md)
    THEN LET idx == 2..(YamlEnd(md) - 1)
             keys == {md[j].key : j \in idx}
             last(k) == CHOOSE j \in idx :
                            md[j].key = k /\ \A i \in idx : md[i].key = k => i <= j
         IN  [k \in keys |-> md[last(k)].value]
    ELSE [k \in {} |-> ""]

ParseBody(md) ==
    IF HasYaml(md) THEN Blocks(SubSeq(md, YamlEnd(md) + 1, Len(md))) ELSE Blocks(md)

(* anchors: the slug of every header and of every definition-list term *)
RECURSIVE NodeAnchors(_)
NodeAnchors(nodes) ==
    IF nodes = <<>> THEN {}
    ELSE LET n == Head(nodes)
             own == IF n.t \in {"Header", "DefinitionList"}
                    THEN {text2fragment_identifier(n.title)}
                    ELSE {}
         IN  own \cup NodeAnchors(n.c) \cup NodeAnchors(Tail(nodes))

PandocAstHelper(md) ==
    [header |-> ParseHeader(md), body |-> ParseBody(md),
     anchors |-> NodeAnchors(ParseBody(md))]

ast_to_string(words) == words

IsHeaderNode(n) == n.t = "Header"
IsBox(n) == n.t = "BlockQuote" /\ Len(n.c) > 0 /\ n.c[1].t = "Header"

(* top-level headings only, as <<level, title>> *)
get_headings(ast) ==
    LET hs == SelectSeq(ast.body, IsHeaderNode)
    IN  [i \in 1..Len(hs) |-> <<hs[i].level, ast_to_string(hs[i].title)>>]

(* top-level block quotes that start with a header *)
get_boxes(ast) == SelectSeq(ast.body, IsBox)

get_box_level(box) == box.c[1].level
get_box_title(box) == ast_to_string(box.c[1].title)
get_box_type(box) == IF box.c[1].cls = <<>> THEN NoType ELSE box.c[1].cls[1]

(* pandocfilters.walk collecting Link and Image nodes: the whole tree *)
RECURSIVE get_links(_)
get_links(nodes) ==
    IF nodes = <<>> THEN <<>>
    ELSE Head(nodes).links \o get_links(Head(nodes).c) \o get_links(Tail(nodes))

----------------------------------------------------------------------------
(* The template table: class attributes of the validators *)

LESSON_TEMPLATES ==
    {"index", "topic", "motivation", "reference", "instructor", "license", "discussion"}

None == <<"None">>
Inf == -1      \* float("inf")

EXPECTED_HEADINGS(tpl) ==
    CASE tpl = "index" -> << <<"Topics">>, <<"Other", "Resources">> >>
      [] tpl = "reference" -> << <<"Glossary">> >>
      [] tpl = "instructor" -> << <<"Legend">>, <<"Overall">> >>
      [] OTHER -> <<>>

(* the class attribute left at the default of the base class *)
WARN_ON_EXTRA_HEADINGS_default(tpl) == TRUE

WARN_ON_EXTRA_HEADINGS(tpl) ==
    tpl \notin {"motivation", "reference", "instructor", "discussion"}

EXPECTED_YAML_HEADER(tpl) ==
    CASE tpl = "index" -> [k \in {"layout", "title"} |-> "is_str"]
      [] tpl = "topic" ->
            [k \in {"layout", "title", "subtitle", "minutes"} |->
                IF k = "minutes" THEN "is_numeric" ELSE "is_str"]
      [] tpl \in {"motivation", "reference", "instructor", "discussion"} ->
            [k \in {"layout", "title", "subtitle"} |-> "is_str"]
      [] OTHER -> [k \in {} |-> "is_str"]

BoxRule(title, min, max) == [title |-> title, min |-> min, max |-> max]

EXPECTED_BOXES(tpl) ==
    CASE tpl = "index" -> [b \in {"prereq"} |-> BoxRule(<<"Prerequisites">>, 1, 1)]
      [] tpl = "topic" ->
            [b \in {"objectives", "callout", "challenge"} |->
                IF b = "objectives" THEN BoxRule(<<"Learning", "Objectives">>, 1, 1)
                ELSE BoxRule(None, 0, Inf)]
      [] OTHER -> [b \in {} |-> BoxRule(None, 0, 0)]

(* min_ > n and max_ < n on numbers that may be float("inf") *)
Greater(a, n) == a = Inf \/ a > n
Less(a, n) == a # Inf /\ a < n

----------------------------------------------------------------------------
(* Loops of the form  res = res and check(x) : the check is called only    *)
(* while res is still True, and an exception of the call propagates.       *)

Outcome(res, lg) == [res |-> res, log |-> lg, acc |-> {}]
OutcomeAcc(res, lg, acc) == [res |-> res, log |-> lg, acc |-> acc]

Min(S) == CHOOSE x \in S : \A y \in S : x <= y

ShortCircuit(rs) ==
    LET bad == {i \in 1..Len(rs) : rs[i].res # True}
        stop == IF bad = {} THEN Len(rs) ELSE Min(bad)
    IN  OutcomeAcc(IF bad = {} THEN True ELSE rs[stop].res,
                   Flatten([i \in 1..stop |-> rs[i].log]),
                   UNION {rs[i].acc : i \in 1..stop})

ZipLongest(a, b) ==
    [i \in 1..Max2(Len(a), Len(b)) |->
        <<IF i <= Len(a) THEN a[i] ELSE None, IF i <= Len(b) THEN b[i] ELSE None>>]

----------------------------------------------------------------------------
(* MarkdownValidator._validate_no_fixme *)

(* re.search("FIXME", line, re.IGNORECASE): anywhere in the line *)
ContainsFixme(line) == \E t \in LineTokens(line) : Lower(t) \in {"fixme", "(fixme)."}

(* the search without re.IGNORECASE *)
_validate_no_fixme_case_sensitive(md) ==
    LET hit(i) == \E t \in LineTokens(md[i]) : t \in {"FIXME", "(FIXME)."}
        hits == SelectSeq([i \in 1..Len(md) |-> i], hit)
    IN  Outcome(Bool(hits = <<>>),
                [j \in 1..Len(hits) |-> Diag("contains FIXME", <<>>, hits[j])])

_validate_no_fixme(md) ==
    LET hit(i) == ContainsFixme(md[i])
        hits == SelectSeq([i \in 1..Len(md) |-> i], hit)
    IN  Outcome(Bool(hits = <<>>),
                [j \in 1..Len(hits) |-> Diag("contains FIXME", <<>>, hits[j])])

----------------------------------------------------------------------------
(* MarkdownValidator._validate_header *)

KeyOrder == <<"layout", "minutes", "otherline", "subtitle", "title">>

sorted(S) == LET member(k) == k \in S IN SelectSeq(KeyOrder, member)

_validate_one_element_from_header(tpl, ast, key) ==
    IF key \notin DOMAIN EXPECTED_YAML_HEADER(tpl)
    THEN Outcome(False, <<Diag("Unrecognized label", <<key>>, 0)>>)
    ELSE IF ~ApplyValidator(EXPECTED_YAML_HEADER(tpl)[key], ast.header[key])
    THEN Outcome(False, <<Diag("does not follow expected format", <<key>>, 0)>>)
    ELSE Outcome(True, <<>>)

HeaderPairDiag(pair) ==
    LET expected == pair[1]
        occurred == pair[2]
    IN  IF expected = None THEN <<Diag("Extra key", occurred, 0)>>
        ELSE IF occurred = None THEN <<Diag("Missing key", expected, 0)>>
        ELSE IF expected # occurred THEN <<Diag("Key should be", occurred \o expected, 0)>>
        ELSE <<>>

(* without the comparison of the sorted key lists *)
_validate_header_keys_only(tpl, ast) ==
    IF Cardinality(DOMAIN ast.header) = 0
    THEN Outcome(False, <<Diag("Document must include YAML header", <<>>, 0)>>)
    ELSE LET keys == sorted(DOMAIN ast.header)
         IN  ShortCircuit(
                 [i \in 1..Len(keys) |-> _validate_one_element_from_header(tpl, ast, keys[i])])

_validate_header(tpl, ast) ==
    IF Cardinality(DOMAIN ast.header) = 0
    THEN Outcome(False, <<Diag("Document must include YAML header", <<>>, 0)>>)
    ELSE LET keys == sorted(DOMAIN ast.header)
             elems == ShortCircuit(
                 [i \in 1..Len(keys) |-> _validate_one_element_from_header(tpl, ast, keys[i])])
             exp == sorted(DOMAIN EXPECTED_YAML_HEADER(tpl))
             pairs == ZipLongest([i \in 1..Len(exp) |-> <<exp[i]>>],
                                 [i \in 1..Len(keys) |-> <<keys[i]>>])
             zlog == Flatten([i \in 1..Len(pairs) |-> HeaderPairDiag(pairs[i])])
         IN  Outcome(IF zlog # <<>> THEN False ELSE elems.res, elems.log \o zlog)

----------------------------------------------------------------------------
(* MarkdownValidator._validate_headings *)

_validate_one_heading(heading) ==
    IF heading[1] # 2
    THEN Outcome(False, <<Diag("should be level 2", heading[2], 0)>>)
    ELSE Outcome(True, <<>>)

HeadingPairDiag(pair) ==
    LET expected == pair[1]
        occurred == pair[2]
    IN  IF expected = None THEN <<Diag("Extra heading", occurred, 0)>>
        ELSE IF occurred = None THEN <<Diag("Missing heading", expected, 0)>>
        ELSE IF expected # occurred THEN <<Diag("Heading should be", occurred \o expected, 0)>>
        ELSE <<>>

(* zip instead of zip_longest: the longer list is cut *)
_validate_headings_order_zip(tpl, ast) ==
    LET isL2(h) == h[1] = 2
        l2 == SelectSeq(get_headings(ast), isL2)
        headings == [i \in 1..Len(l2) |-> l2[i][2]]
        n == IF Len(headings) < Len(EXPECTED_HEADINGS(tpl)) THEN Len(headings)
             ELSE Len(EXPECTED_HEADINGS(tpl))
        pairs == [i \in 1..n |-> <<EXPECTED_HEADINGS(tpl)[i], headings[i]>>]
        lg == Flatten([i \in 1..Len(pairs) |-> HeadingPairDiag(pairs[i])])
    IN  Outcome(Bool(lg = <<>>), lg)

_validate_headings_order(tpl, ast) ==
    LET isL2(h) == h[1] = 2
        l2 == SelectSeq(get_headings(ast), isL2)
        headings == [i \in 1..Len(l2) |-> l2[i][2]]
        pairs == ZipLongest(EXPECTED_HEADINGS(tpl), headings)
        lg == Flatten([i \in 1..Len(pairs) |-> HeadingPairDiag(pairs[i])])
    IN  Outcome(Bool(lg = <<>>), lg)

(* without the call of _validate_headings_order *)
_validate_headings_no_order(tpl, ast) ==
    LET headings == get_headings(ast)
        each == ShortCircuit([i \in 1..Len(headings) |-> _validate_one_heading(headings[i])])
        heading_titles == [i \in 1..Len(headings) |-> headings[i][2]]
        isMissing(e) == e \notin Range(heading_titles)
        missing_headings == SelectSeq(EXPECTED_HEADINGS(tpl), isMissing)
        isExtra(f) == f \notin Range(EXPECTED_HEADINGS(tpl))
        extra_headings == SelectSeq(heading_titles, isExtra)
    IN  Outcome(IF missing_headings # <<>> THEN False
                ELSE IF WARN_ON_EXTRA_HEADINGS(tpl) /\ extra_headings # <<>> THEN False
                ELSE each.res, <<>>)

_validate_headings(tpl, ast) ==
    LET headings == get_headings(ast)
        each == ShortCircuit([i \in 1..Len(headings) |-> _validate_one_heading(headings[i])])
        heading_titles == [i \in 1..Len(headings) |-> headings[i][2]]
        isMissing(e) == e \notin Range(heading_titles)
        missing_headings == SelectSeq(EXPECTED_HEADINGS(tpl), isMissing)
        mlog == [i \in 1..Len(missing_headings) |->
                    Diag("Document is missing expected heading", missing_headings[i], 0)]
        isExtra(f) == f \notin Range(EXPECTED_HEADINGS(tpl))
        extra_headings == SelectSeq(heading_titles, isExtra)
        xlog == [i \in 1..Len(extra_headings) |->
                    Diag("Document contains heading not specified", extra_headings[i], 0)]
        res1 == IF mlog # <<>> THEN False ELSE each.res
    IN  IF ~WARN_ON_EXTRA_HEADINGS(tpl)
        THEN Outcome(res1, each.log \o mlog)
        ELSE LET res2 == IF xlog # <<>> THEN False ELSE res1
                 order == IF res2 = True THEN _validate_headings_order(tpl, ast)
                          ELSE Outcome(False, <<>>)
             IN  Outcome(order.res, each.log \o mlog \o xlog \o order.log)

----------------------------------------------------------------------------
(* MarkdownValidator._validate_boxes and the box shape rules.              *)
(* ast_node['c'][1] on a box that has only its header raises IndexError.   *)

_is_box_nonempty(box) ==
    IF Len(box.c) = 1
    THEN Outcome(False, <<Diag("Box should not be empty", get_box_title(box), 0)>>)
    ELSE Outcome(True, <<>>)

_is_callout_box(box) == _is_box_nonempty(box)

_is_challenge_box(box) == _is_box_nonempty(box)

(* the rule of a callout box applied to an objectives box *)
_is_objectives_box_as_callout(box) == _is_box_nonempty(box)

_is_objectives_box(box) ==
    LET ne == _is_box_nonempty(box)
    IN  IF Len(box.c) < 2 THEN Outcome(IndexError, ne.log)
        ELSE LET l1 == IF box.c[2].t # "BulletList"
                       THEN <<Diag("Box should has a list as second element",
                                   get_box_title(box), 0)>>
                       ELSE <<>>
                 l2 == IF Len(box.c) > 2
                       THEN <<Diag("Box should has only one heading and one list",
                                   get_box_title(box), 0)>>
                       ELSE <<>>
             IN  Outcome(IF l1 \o l2 # <<>> THEN False ELSE ne.res, ne.log \o l1 \o l2)

_is_prereq_box(box) ==
    LET l0 == IF get_box_title(box) # <<"Prerequisites">>
              THEN <<Diag("Title of box should be Prerequisites", get_box_title(box), 0)>>
              ELSE <<>>
        ne == IF l0 = <<>> THEN _is_box_nonempty(box) ELSE Outcome(False, <<>>)
    IN  IF Len(box.c) < 2 THEN Outcome(IndexError, l0 \o ne.log)
        ELSE LET l1 == IF box.c[2].t # "Para"
                       THEN <<Diag("Box should has a paragraph as second element",
                                   get_box_title(box), 0)>>
                       ELSE <<>>
                 l2 == IF Len(box.c) > 2
                       THEN <<Diag("Box should has only one heading and one list",
                                   get_box_title(box), 0)>>
                       ELSE <<>>
             IN  Outcome(IF l1 \o l2 # <<>> THEN False ELSE ne.res,
                         l0 \o ne.log \o l1 \o l2)

(* boxes_type_and_functions: 'challenge' is bound to _is_callout_box *)
BoxTypeOrder == <<"callout", "challenge", "objectives", "prereq">>

box_function(box_type, box) ==
    CASE box_type = "callout" -> _is_callout_box(box)
      [] box_type = "challenge" -> _is_callout_box(box)
      [] box_type = "objectives" -> _is_objectives_box(box)
      [] box_type = "prereq" -> _is_prereq_box(box)

Count(counters, t) == IF t \in DOMAIN counters THEN counters[t] ELSE 0

(* one pass of the loop over the boxes; st = [res, log, counters] *)
BoxStep(st, box) ==
    LET l0 == IF get_box_level(box) # 2
              THEN <<Diag("The title of box must be of level 2", get_box_title(box), 0)>>
              ELSE <<>>
        res0 == IF l0 # <<>> THEN False ELSE st.res
        box_type == get_box_type(box)
        counters0 == IF box_type \in DOMAIN st.counters THEN st.counters
                     ELSE st.counters @@ (box_type :> 0)
    IN  IF box_type \in Range(BoxTypeOrder)
        THEN LET shape == box_function(box_type, box)
             IN  IF shape.res = IndexError
                 THEN [res |-> IndexError, log |-> st.log \o l0 \o shape.log,
                       counters |-> counters0]
                 ELSE IF shape.res = True
                 THEN [res |-> res0, log |-> st.log \o l0 \o shape.log,
                       counters |-> [counters0 EXCEPT ![box_type] = @ + 1]]
                 ELSE [res |-> False, log |-> st.log \o l0 \o shape.log,
                       counters |-> counters0]
        ELSE [res |-> False,
              log |-> st.log \o l0 \o <<Diag("Box of unknown type", get_box_title(box), 0)>>,
              counters |-> counters0]

RECURSIVE BoxLoop(_, _)
BoxLoop(st, boxes) ==
    IF boxes = <<>> \/ st.res = IndexError THEN st
    ELSE BoxLoop(BoxStep(st, Head(boxes)), Tail(boxes))

(* boxes_counters after the loop over the boxes *)
boxes_counters(ast) ==
    BoxLoop([res |-> True, log |-> <<>>, counters |-> [t \in {} |-> 0]],
            get_boxes(ast)).counters

(* without the comparison against max_ *)
CardinalityDiag_min_only(tpl, counters, expected_box_type) ==
    LET rule == EXPECTED_BOXES(tpl)[expected_box_type]
    IN  IF expected_box_type \notin DOMAIN counters
        THEN IF rule.min > 0 THEN <<Diag("Missing box", <<expected_box_type>>, 0)>>
             ELSE <<>>
        ELSE IF Greater(rule.min, counters[expected_box_type])
        THEN <<Diag("Should be at least min and no more than max box",
                    <<expected_box_type>>, 0)>>
        ELSE <<>>

CardinalityDiag(tpl, counters, expected_box_type) ==
    LET rule == EXPECTED_BOXES(tpl)[expected_box_type]
    IN  IF expected_box_type \notin DOMAIN counters
        THEN IF rule.min > 0 THEN <<Diag("Missing box", <<expected_box_type>>, 0)>>
             ELSE <<>>
        ELSE IF Greater(rule.min, counters[expected_box_type])
                \/ Less(rule.max, counters[expected_box_type])
        THEN <<Diag("Should be at least min and no more than max box",
                    <<expected_box_type>>, 0)>>
        ELSE <<>>

_validate_boxes(tpl, ast) ==
    LET st == BoxLoop([res |-> True, log |-> <<>>, counters |-> [t \in {} |-> 0]],
                      get_boxes(ast))
        declared(t) == t \in DOMAIN EXPECTED_BOXES(tpl)
        types == SelectSeq(BoxTypeOrder, declared)
        clog == Flatten([i \in 1..Len(types) |-> CardinalityDiag(tpl, st.counters, types[i])])
    IN  IF st.res = IndexError THEN Outcome(IndexError, st.log)
        ELSE Outcome(IF clog # <<>> THEN False ELSE st.res, st.log \o clog)

----------------------------------------------------------------------------
(* Paths (os.path) on token sequences: a directory token ends in "/".      *)

DirTokens ==
    {"lesson/", "site.html/", "site.md/", "fig/", "www.website.com/", "/repo/", "nosuch/"}
AbsTokens == {"/repo/"}

Last(s) == s[Len(s)]
MaxOf(S) == CHOOSE x \in S : \A y \in S : x >= y

dirname(path) ==
    LET idx == {i \in 1..Len(path) : path[i] \in DirTokens}
    IN  IF idx = {} THEN <<>> ELSE SubSeq(path, 1, MaxOf(idx))

path_join(a, b) == IF b # <<>> /\ b[1] \in AbsTokens THEN b ELSE a \o b

(* the directory that holds tools/, used when validating a string *)
RepoDir == <<"/repo/">>

lesson_dir(fname) == IF fname # NoFile THEN dirname(fname) ELSE RepoDir

(* str.replace(".html", ".md"): every occurrence, matching case *)
ReplaceToken(t) ==
    CASE t = ".html" -> ".md"
      [] t = "site.html/" -> "site.md/"
      [] OTHER -> t

replace_html(path) == [i \in 1..Len(path) |-> ReplaceToken(path[i])]

(* re.search(r"\.(html?)$", path, re.IGNORECASE) *)
EndsInHtml(path) == path # <<>> /\ Lower(Last(path)) \in {".html", ".htm"}

(* the prefixes matched without re.IGNORECASE *)
IsThirdParty_case_sensitive(address) ==
    /\ address # <<>>
    /\ address[1] \in {"http://", "https://", "ftp://", "mailto:"}

(* re.match of the third-party prefixes *)
IsThirdParty(address) ==
    /\ address # <<>>
    /\ \/ Lower(address[1]) \in {"http://", "https://", "ftp://"}
       \/ address[1] = "mailto:"

SplitDest(address) ==
    LET idx == {i \in 1..Len(address) : address[i] = "#"}
    IN  IF idx = {} THEN address ELSE SubSeq(address, 1, Min(idx) - 1)

SplitAnchor(address) ==
    LET idx == {i \in 1..Len(address) : address[i] = "#"}
    IN  IF idx = {} THEN None
        ELSE LET first == Min(idx)
                 rest == idx \ {first}
                 stop == IF rest = {} THEN Len(address) ELSE Min(rest) - 1
             IN  SubSeq(address, first + 1, stop)

isfile(files, path) == path \in DOMAIN files

File(readable, text) == [readable |-> readable, text |-> text]

----------------------------------------------------------------------------
(* MarkdownValidator._validate_one_link and _validate_links *)

_validate_one_link(fname, files, address) ==
    IF IsThirdParty(address) THEN OutcomeAcc(True, <<>>, {})
    ELSE
    LET anchor == SplitAnchor(address)
        dest0 == SplitDest(address)
        dest == IF dest0 # <<>> THEN dest0 ELSE fname
    IN  IF dest = NoFile THEN OutcomeAcc(TypeError, <<>>, {})
        ELSE
        LET joined == path_join(lesson_dir(fname), dest)
        IN  IF EndsInHtml(joined)
            THEN LET dest_path == replace_html(joined)
                 IN  IF ~isfile(files, dest_path)
                     THEN OutcomeAcc(False,
                              <<Diag("could not find the expected Markdown file",
                                     dest_path, 0)>>, {dest_path})
                     ELSE IF anchor # None /\ anchor # <<>>
                     THEN IF ~files[dest_path].readable
                          THEN OutcomeAcc(IOError, <<>>, {dest_path})
                          ELSE IF anchor \notin PandocAstHelper(files[dest_path].text).anchors
                          THEN OutcomeAcc(False,
                                   <<Diag("could not find the anchor", anchor, 0)>>,
                                   {dest_path})
                          ELSE OutcomeAcc(True, <<>>, {dest_path})
                     ELSE OutcomeAcc(True, <<>>, {dest_path})
            ELSE IF ~isfile(files, joined)
                 THEN OutcomeAcc(False,
                          <<Diag("Could not find the linked asset file", joined, 0)>>,
                          {joined})
                 ELSE OutcomeAcc(True, <<>>, {joined})

(* a link check that also checks the links of every target it opened *)
_validate_links_following(fname, files, ast) ==
    LET links == get_links(ast.body)
        own == [i \in 1..Len(links) |-> _validate_one_link(fname, files, links[i])]
        deeper(p) ==
            LET ls == get_links(PandocAstHelper(files[p].text).body)
            IN  [j \in 1..Len(ls) |-> _validate_one_link(p, files, ls[j])]
        followed(i) ==
            IF own[i].acc = {} THEN <<>>
            ELSE LET p == CHOOSE q \in own[i].acc : TRUE
                 IN  IF p \in DOMAIN files /\ files[p].readable THEN deeper(p) ELSE <<>>
    IN  ShortCircuit(own \o Flatten([i \in 1..Len(links) |-> followed(i)]))

_validate_links(fname, files, ast) ==
    LET links == get_links(ast.body)
    IN  ShortCircuit([i \in 1..Len(links) |-> _validate_one_link(fname, files, links[i])])

----------------------------------------------------------------------------
(* IndexPageValidator._validate_intro_section.  node['c'] of a paragraph   *)
(* is its inline content, of a block quote its blocks; the content of any  *)
(* other node is not a list of nodes.                                      *)

Inline(t) ==
    [t |-> t, level |-> 0, title |-> <<>>, cls |-> <<>>, links |-> <<>>, c |-> <<>>]

Inlines(node) ==
    LET n == Len(node.title)
        text == [i \in 1..(IF n = 0 THEN 0 ELSE 2 * n - 1) |->
                    IF i % 2 = 1 THEN Inline("Str") ELSE Inline("Space")]
    IN  text \o [i \in 1..Len(node.links) |-> Inline("Link")]

get_node_content(nodes, index) ==
    LET node == nodes[index + 1]
    IN  CASE node.t = "BlockQuote" -> node.c
          [] node.t = "Para" -> Inlines(node)
          [] node.t = "HorizontalRule" -> <<>>
          [] OTHER -> <<Inline("NotANode"), Inline("NotANode")>>

(* nodes[index]['t'], or the exception that reading it raises *)
TypeAt(nodes, index) ==
    IF index + 1 > Len(nodes) THEN IndexError
    ELSE IF nodes[index + 1].t = "NotANode" THEN TypeError
    ELSE nodes[index + 1].t

is_paragraph(nodes, index) == TypeAt(nodes, index) = "Para"
is_blockquote(nodes, index) == TypeAt(nodes, index) = "BlockQuote"
is_heading(nodes, index) == TypeAt(nodes, index) = "Header"

_validate_intro_section(ast) ==
    IF IsRaise(TypeAt(ast.body, 0)) THEN Outcome(TypeAt(ast.body, 0), <<>>)
    ELSE IF is_paragraph(ast.body, 0)
    THEN Outcome(False, <<Diag("The first element must be a paragraph", <<>>, 0)>>)
    ELSE IF IsRaise(TypeAt(ast.body, 1)) THEN Outcome(TypeAt(ast.body, 1), <<>>)
    ELSE IF is_blockquote(ast.body, 1)
    THEN Outcome(False, <<Diag("The second element must be a blockquote", <<>>, 0)>>)
    ELSE LET blockquote == get_node_content(ast.body, 1)
         IN  IF IsRaise(TypeAt(blockquote, 0)) THEN Outcome(TypeAt(blockquote, 0), <<>>)
             ELSE IF is_heading(blockquote, 0)
             THEN Outcome(False,
                      <<Diag("The first element at the blockquote must be a header",
                             <<>>, 0)>>)
             ELSE IF IsRaise(TypeAt(blockquote, 1))
             THEN Outcome(TypeAt(blockquote, 1), <<>>)
             ELSE IF is_paragraph(blockquote, 1)
             THEN Outcome(False,
                      <<Diag("The second element at the blockquote must be a header",
                             <<>>, 0)>>)
             ELSE Outcome(True, <<>>)

----------------------------------------------------------------------------
(* ReferencePageValidator._validate_glossary *)

(* a loop that keeps the entry but never reports what follows it *)
GlossaryStep_no_extra(st, node) ==
    IF st.glossary # <<>> THEN st
    ELSE IF st.finded THEN [st EXCEPT !.glossary = <<node>>]
    ELSE IF node.t = "Header" /\ ast_to_string(node.title) = <<"Glossary">>
    THEN [st EXCEPT !.finded = TRUE]
    ELSE st

(* st = [log, finded, glossary] with glossary the node kept, or none *)
GlossaryStep(st, node) ==
    IF st.glossary # <<>>
    THEN [st EXCEPT !.log = Append(@, Diag("Extra element after glossary", <<>>, 0))]
    ELSE IF st.finded THEN [st EXCEPT !.glossary = <<node>>]
    ELSE IF node.t = "Header" /\ ast_to_string(node.title) = <<"Glossary">>
    THEN [st EXCEPT !.finded = TRUE]
    ELSE st

RECURSIVE GlossaryLoop(_, _)
GlossaryLoop(st, nodes) ==
    IF nodes = <<>> THEN st ELSE GlossaryLoop(GlossaryStep(st, Head(nodes)), Tail(nodes))

_validate_glossary(ast) ==
    LET st == GlossaryLoop([log |-> <<>>, finded |-> FALSE, glossary |-> <<>>], ast.body)
        mlog == IF st.glossary = <<>> THEN <<Diag("Missing glossary entry", <<>>, 0)>>
                ELSE <<>>
    IN  Outcome(Bool(st.log \o mlog = <<>>), st.log \o mlog)

----------------------------------------------------------------------------
(* LicensePageValidator._run_tests: the digest of the exact text.  The     *)
(* digest is modelled as collision free.                                   *)

LicenseText == <<ParaLine(<<"license">>, <<>>)>>

md5(text) == <<"md5", text>>

expected_hash == md5(LicenseText)

(* a check that accepts any text *)
LicenseCheck_any_text(md) == Outcome(True, <<>>)

LicenseCheck(md) ==
    IF md5(md) = expected_hash THEN Outcome(True, <<>>)
    ELSE Outcome(False,
             <<Diag("The provided license file should not be modified", <<>>, 0)>>)

----------------------------------------------------------------------------
(* validate() and _run_tests() of each validator class *)

TestNames ==
    {"no_fixme", "header", "headings", "boxes", "links", "intro", "glossary", "license"}

BaseTests == <<"no_fixme", "header", "headings", "boxes", "links">>

(* the order in which _run_tests of the class calls the sub-checks *)
TestOrder(tpl) ==
    CASE tpl = "index" -> BaseTests \o <<"intro">>
      [] tpl = "reference" -> <<"glossary">> \o BaseTests
      [] tpl = "license" -> <<"license">>
      [] OTHER -> BaseTests

AfterTest(tpl, name) ==
    LET order == TestOrder(tpl)
        i == CHOOSE j \in 1..Len(order) : order[j] = name
    IN  IF i = Len(order) THEN "return" ELSE order[i + 1]

all(ts, names) == \A n \in Range(names) : ts[n] = True

(* a subclass that forgets its own check: only the base result counts *)
_run_tests_base_only(tpl, ts) ==
    IF tpl = "license" THEN ts["license"] ELSE Bool(all(ts, BaseTests))

(* the value _run_tests hands back once every sub-check has returned *)
_run_tests(tpl, ts) ==
    CASE tpl = "index" -> Bool(all(ts, <<"intro">>) /\ all(ts, BaseTests))
      [] tpl = "reference" -> Bool(all(ts, <<"glossary">>) /\ all(ts, BaseTests))
      [] tpl = "license" -> ts["license"]
      [] OTHER -> Bool(all(ts, BaseTests))

ast == PandocAstHelper(markdown)

NoTests == [n \in TestNames |-> Unrun]

(* a sub-check has run with outcome out: validate() turns an IndexError    *)
(* into False, any other exception leaves validate()                       *)
Step(name, out) ==
    /\ pc = name
    /\ tests' = [tests EXCEPT ![name] = out.res]
    /\ fsAccess' = fsAccess \cup out.acc
    /\ IF out.res = IndexError
       THEN /\ pc' = "done"
            /\ result' = False
            /\ log' = log \o out.log
                          \o <<Diag("Document is missing critical sections", <<>>, 0)>>
       ELSE IF IsRaise(out.res)
       THEN /\ pc' = "raised"
            /\ result' = out.res
            /\ log' = log \o out.log
       ELSE /\ pc' = AfterTest(template, name)
            /\ result' = result
            /\ log' = log \o out.log
    /\ UNCHANGED extractVars
    /\ UNCHANGED <<template, filename, markdown, fs, prev, driverVars>>

RunNoFixme == Step("no_fixme", _validate_no_fixme(markdown))
RunHeader == Step("header", _validate_header(template, ast))
RunHeadings == Step("headings", _validate_headings(template, ast))
RunBoxes == Step("boxes", _validate_boxes(template, ast))
RunLinks == Step("links", _validate_links(filename, fs, ast))
RunIntro == Step("intro", _validate_intro_section(ast))
RunGlossary == Step("glossary", _validate_glossary(ast))
RunLicense == Step("license", LicenseCheck(markdown))

Return ==
    /\ pc = "return"
    /\ result' = _run_tests(template, tests)
    /\ pc' = "done"
    /\ UNCHANGED extractVars
    /\ UNCHANGED <<template, filename, markdown, fs, tests, log, fsAccess, prev,
                   driverVars>>

----------------------------------------------------------------------------
(* The author edits the anchor of the document's only link (a reference    *)
(* target.html#slug) and the document is validated again.                  *)

Slugs == {<<"intro">>, <<"key", "-", "word">>, <<"absent">>, <<"fixme">>}

AllLinks(md) == Flatten([i \in 1..Len(md) |-> md[i].links])

IsAnchorReference(address) ==
    /\ ~IsThirdParty(address)
    /\ SplitDest(address) # <<>>
    /\ Last(SplitDest(address)) = ".html"
    /\ SplitAnchor(address) \in Slugs
    /\ address = SplitDest(address) \o <<"#">> \o SplitAnchor(address)

WithAnchor(md, slug) ==
    [i \in 1..Len(md) |->
        [md[i] EXCEPT !.links =
            [j \in 1..Len(@) |-> SplitDest(@[j]) \o <<"#">> \o slug]]]

EditAnchor ==
    /\ pc = "done"
    /\ prev = NoTests
    /\ Len(AllLinks(markdown)) = 1
    /\ IsAnchorReference(AllLinks(markdown)[1])
    /\ \E slug \in Slugs \ {SplitAnchor(AllLinks(markdown)[1])} :
          /\ markdown' = WithAnchor(markdown, slug)
          /\ fs' = IF filename \in DOMAIN fs
                   THEN [fs EXCEPT ![filename].text = WithAnchor(markdown, slug)]
                   ELSE fs
    /\ prev' = tests
    /\ tests' = NoTests
    /\ pc' = TestOrder(template)[1]
    /\ result' = Unrun
    /\ log' = <<>>
    /\ fsAccess' = {}
    /\ UNCHANGED extractVars
    /\ UNCHANGED <<template, filename, driverVars>>

----------------------------------------------------------------------------
(* Template dispatch: the patterns of LESSON_TEMPLATES, SKIP_FILES and     *)
(* identify_template.  A basename is split where the patterns end:         *)
(* <<"instructor", "s", ".md">>, <<"0", "1", "-", "intro", ".md">>.        *)

NoTemplate == "None"      \* template=None

basename(path) == SubSeq(path, Len(dirname(path)) + 1, Len(path))

Digits == {"0", "1", "2"}

(* the patterns without their "^": re.search finds them anywhere *)
PatternMatches_unanchored(tpl, name) ==
    CASE tpl = "index" -> "index" \in Range(name)
      [] tpl = "topic" -> \E i \in 1..(Len(name) - 2) :
                              name[i] \in Digits /\ name[i + 1] \in Digits /\ name[i + 2] = "-"
      [] tpl = "motivation" -> "motivation" \in Range(name)
      [] tpl = "reference" -> "reference" \in Range(name)
      [] tpl = "instructor" -> \E i \in 1..(Len(name) - 1) :
                                   name[i] = "instructor" /\ name[i + 1] = "s"
      [] tpl = "license" -> "LICENSE" \in Range(name)
      [] tpl = "discussion" -> "discussion" \in Range(name)

(* re.search(pattern, name) for the pattern of template tpl *)
PatternMatches(tpl, name) ==
    CASE tpl = "index" -> Len(name) >= 1 /\ name[1] = "index"
      [] tpl = "topic" -> /\ Len(name) >= 3
                          /\ name[1] \in Digits /\ name[2] \in Digits /\ name[3] = "-"
      [] tpl = "motivation" -> Len(name) >= 1 /\ name[1] = "motivation"
      [] tpl = "reference" -> Len(name) >= 1 /\ name[1] = "reference"
      [] tpl = "instructor" -> Len(name) >= 2 /\ name[1] = "instructor" /\ name[2] = "s"
      [] tpl = "license" -> Len(name) >= 1 /\ name[1] = "LICENSE"
      [] tpl = "discussion" -> Len(name) >= 1 /\ name[1] = "discussion"

(* LESSON_TEMPLATES.items() has no fixed order: the table as written, and  *)
(* backwards, which return different templates as soon as two patterns     *)
(* match one name                                                          *)
TemplateOrder ==
    <<"index", "topic", "motivation", "reference", "instructor", "license", "discussion">>

Reverse(s) == [i \in 1..Len(s) |-> s[Len(s) + 1 - i]]

TableOrders == {TemplateOrder, Reverse(TemplateOrder)}

identify_template(order, filepath) ==
    LET matches(t) == PatternMatches(t, basename(filepath))
        hits == SelectSeq(order, matches)
    IN  IF hits = <<>> THEN NoTemplate ELSE hits[1]

(* a list that forgot README.md *)
SKIP_FILES_without_readme ==
    {<<"CONDUCT", ".md">>, <<"CONTRIBUTING", ".md">>, <<"DESIGN", ".md">>,
     <<"FAQ", ".md">>, <<"LAYOUT", ".md">>}

SKIP_FILES ==
    {<<"CONDUCT", ".md">>, <<"CONTRIBUTING", ".md">>, <<"DESIGN", ".md">>,
     <<"FAQ", ".md">>, <<"LAYOUT", ".md">>, <<"README", ".md">>}

----------------------------------------------------------------------------
(* The file system seen by glob, os.path.isdir and os.path.isfile *)

(* every basename a directory of the model may hold, in sorted order *)
NameOrder ==
    << <<"0", "1", "-", "index", ".md">>, <<"0", "1", "-", "intro", ".md">>,
       <<"1", "-", "intro", ".md">>,
       <<"CONDUCT", ".md">>, <<"LICENSE", ".md">>, <<"README", ".md">>,
       <<"data", ".csv">>, <<"discussion", ".md">>, <<"index", ".md">>,
       <<"index", "ing", ".md">>, <<"instructor", ".md">>, <<"instructor", "s", ".md">>,
       <<"license", ".md">>, <<"motivation", ".md">>, <<"notes", ".md">>,
       <<"reference", ".md">> >>

(* fnmatch of a basename against a pattern with at most one "*" *)
GlobMatches(pattern, name) ==
    LET stars == {i \in 1..Len(pattern) : pattern[i] = "*"}
    IN  IF stars = {} THEN name = pattern
        ELSE LET k == Min(stars)
                 tail == Len(pattern) - k
             IN  /\ Len(name) >= Len(pattern) - 1
                 /\ SubSeq(name, 1, k - 1) = SubSeq(pattern, 1, k - 1)
                 /\ SubSeq(name, Len(name) - tail + 1, Len(name))
                        = SubSeq(pattern, k + 1, Len(pattern))

(* glob.glob(os.path.join(dir, pattern)), in the order of the listing *)
glob(files, dir, pattern, listing) ==
    LET here(name) == path_join(dir, name) \in DOMAIN files /\ GlobMatches(pattern, name)
        found == SelectSeq(NameOrder, here)
        paths == [i \in 1..Len(found) |-> path_join(dir, found[i])]
    IN  IF listing = "reverse" THEN Reverse(paths) ELSE paths

isdir(files, path) ==
    /\ path # <<>>
    /\ Last(path) \in DirTokens
    /\ \E f \in DOMAIN files : Len(f) > Len(path) /\ SubSeq(f, 1, Len(path)) = path

----------------------------------------------------------------------------
(* check_required_files and get_files_to_validate; the outcome of each is  *)
(* its value together with what it logged                                  *)

REQUIRED_FILES ==
    << <<"0", "1", "-", "*", ".md">>, <<"discussion", ".md">>, <<"index", ".md">>,
       <<"instructor", "s", ".md">>, <<"LICENSE", ".md">>, <<"motivation", ".md">>,
       <<"README", ".md">>, <<"reference", ".md">> >>

(* a check that only asks for the index page *)
check_required_files_index_only(files, dir_to_validate, listing) ==
    IF glob(files, dir_to_validate, <<"index", ".md">>, listing) = <<>>
    THEN Outcome(False, <<Diag("Missing file", <<"index", ".md">>, 0)>>)
    ELSE Outcome(True, <<>>)

check_required_files(files, dir_to_validate, listing) ==
    LET absent(required) == glob(files, dir_to_validate, required, listing) = <<>>
        missing == SelectSeq(REQUIRED_FILES, absent)
    IN  Outcome(Bool(missing = <<>>),
                [i \in 1..Len(missing) |-> Diag("Missing file", missing[i], 0)])

(* [files, dirs, log] after the loop over the paths of the command line *)
RECURSIVE get_files_to_validate(_, _, _)
get_files_to_validate(files, file_or_path, listing) ==
    IF file_or_path = <<>> THEN [files |-> <<>>, dirs |-> <<>>, log |-> <<>>]
    ELSE LET fn == Head(file_or_path)
             rest == get_files_to_validate(files, Tail(file_or_path), listing)
         IN  IF isdir(files, fn)
             THEN [rest EXCEPT !.files = glob(files, fn, <<"*", ".md">>, listing) \o @,
                               !.dirs = <<fn>> \o @]
             ELSE IF isfile(files, fn)
             THEN [rest EXCEPT !.files = <<fn>> \o @]
             ELSE [rest EXCEPT !.log =
                      <<Diag("The specified file or folder does not exist", fn, 0)>> \o @]

----------------------------------------------------------------------------
(* validate_single, validate_folder and main.  validate_single is entered  *)
(* from main (the command line), from validate_folder, or directly.        *)

validatorVars == <<template, filename, markdown, pc, tests, result, log, fsAccess>>

(* a call of validate_single that ended: res is the value returned or the  *)
(* exception raised, opened tells whether open() was called on the file    *)
Call(file, tpl, res, opened) ==
    [file |-> file, template |-> tpl, res |-> res, opened |-> opened]

(* Python's  a and b  on truth values *)
And(a, b) == IF a = True THEN b ELSE a

(* validate_single ends with the call record c.  Neither validate_single   *)
(* nor its callers catch anything: an exception ends the run, and the      *)
(* interpreter ends the process with status 1.                             *)
EndCall(c) ==
    /\ calls' = Append(calls, c)
    /\ files_to_validate' = Tail(files_to_validate)
    /\ IF IsRaise(c.res)
       THEN /\ mpc' = "crashed"
            /\ all_valid' = all_valid
            /\ exit_status' = IF invocation.entry = "main" THEN <<1>> ELSE exit_status
            /\ returned' = IF invocation.entry = "main" THEN returned ELSE c.res
       ELSE /\ all_valid' = And(all_valid, c.res)
            /\ exit_status' = exit_status
            /\ IF invocation.entry = "single"
               THEN mpc' = "returned" /\ returned' = c.res
               ELSE mpc' = "files" /\ returned' = returned

(* validate_single up to the call of validate() *)
validate_single ==
    /\ mpc = "files"
    /\ files_to_validate # <<>>
    /\ LET filepath == Head(files_to_validate)
       IN  IF basename(filepath) \in SKIP_FILES
           THEN /\ EndCall(Call(filepath, NoTemplate, True, FALSE))
                /\ UNCHANGED <<validatorVars, main_log>>
           ELSE \E order \in TableOrders :
                LET tpl == IF invocation.template # NoTemplate THEN invocation.template
                           ELSE identify_template(order, filepath)
                IN  IF tpl = NoTemplate
                    THEN /\ EndCall(Call(filepath, NoTemplate, False, FALSE))
                         /\ main_log' = Append(main_log,
                                Diag("Could not automatically identify correct template",
                                     filepath, 0))
                         /\ UNCHANGED validatorVars
                    ELSE IF ~isfile(fs, filepath) \/ ~fs[filepath].readable
                    THEN /\ EndCall(Call(filepath, tpl, IOError, TRUE))
                         /\ UNCHANGED <<validatorVars, main_log>>
                    ELSE /\ template' = tpl
                         /\ filename' = filepath
                         /\ markdown' = fs[filepath].text
                         /\ pc' = TestOrder(tpl)[1]
                         /\ tests' = NoTests
                         /\ result' = Unrun
                         /\ log' = <<>>
                         /\ fsAccess' = {}
                         /\ mpc' = "validate"
                         /\ UNCHANGED <<files_to_validate, all_valid, exit_status,
                                        returned, calls, main_log>>
    /\ UNCHANGED extractVars
    /\ UNCHANGED <<fs, prev, invocation, dirs_to_validate>>

(* validate() has returned or raised: the rest of validate_single *)
validate_single_return ==
    /\ mpc = "validate"
    /\ pc \in {"done", "raised"}
    /\ EndCall(Call(filename, template, result, TRUE))
    /\ pc' = "idle"
    /\ UNCHANGED extractVars
    /\ UNCHANGED <<template, filename, markdown, fs, tests, result, log, fsAccess, prev,
                   invocation, dirs_to_validate, main_log>>

validate_folder ==
    /\ mpc = "start"
    /\ invocation.entry = "folder"
    /\ LET filename_list == glob(fs, Head(invocation.paths), <<"*", ".md">>,
                                 invocation.listing)
       IN  IF filename_list = <<>>
           THEN /\ main_log' = Append(main_log,
                       Diag("No Markdown files were found in specified directory",
                            Head(invocation.paths), 0))
                /\ returned' = False
                /\ mpc' = "returned"
                /\ UNCHANGED files_to_validate
           ELSE /\ files_to_validate' = filename_list
                /\ mpc' = "files"
                /\ UNCHANGED <<main_log, returned>>
    /\ UNCHANGED extractVars
    /\ UNCHANGED <<validatorVars, fs, prev, invocation, dirs_to_validate, all_valid,
                   exit_status, calls>>

validate_folder_return ==
    /\ mpc = "files"
    /\ invocation.entry = "folder"
    /\ files_to_validate = <<>>
    /\ returned' = all_valid
    /\ mpc' = "returned"
    /\ UNCHANGED extractVars
    /\ UNCHANGED <<validatorVars, fs, prev, invocation, files_to_validate,
                   dirs_to_validate, all_valid, exit_status, calls, main_log>>

(* main: files_to_validate, dirs_to_validate = get_files_to_validate(...) *)
main_get_files ==
    /\ mpc = "start"
    /\ invocation.entry = "main"
    /\ LET r == get_files_to_validate(fs, invocation.paths, invocation.listing)
       IN  /\ files_to_validate' = r.files
           /\ dirs_to_validate' = r.dirs
           /\ main_log' = main_log \o r.log
    /\ mpc' = "required"
    /\ UNCHANGED extractVars
    /\ UNCHANGED <<validatorVars, fs, prev, invocation, all_valid, exit_status, returned,
                   calls>>

(* main: for d in dirs_to_validate:                                        *)
(*           all_valid = all_valid and check_required_files(d)             *)
main_check_required ==
    /\ mpc = "required"
    /\ LET r == ShortCircuit([i \in 1..Len(dirs_to_validate) |->
                    check_required_files(fs, dirs_to_validate[i], invocation.listing)])
       IN  /\ all_valid' = r.res
           /\ main_log' = main_log \o r.log
    /\ mpc' = "files"
    /\ UNCHANGED extractVars
    /\ UNCHANGED <<validatorVars, fs, prev, invocation, files_to_validate,
                   dirs_to_validate, exit_status, returned, calls>>

(* main: sys.exit(0) if all_valid is True, else sys.exit(1) *)
main_exit ==
    /\ mpc = "files"
    /\ invocation.entry = "main"
    /\ files_to_validate = <<>>
    /\ exit_status' = <<IF all_valid = True THEN 0 ELSE 1>>
    /\ main_log' = IF all_valid = True THEN main_log
                   ELSE Append(main_log,
                            Diag("Some errors were encountered during validation", <<>>, 0))
    /\ mpc' = "exited"
    /\ UNCHANGED extractVars
    /\ UNCHANGED <<validatorVars, fs, prev, invocation, files_to_validate,
                   dirs_to_validate, all_valid, returned, calls>>

----------------------------------------------------------------------------
(* The documents explored.  Each family varies one part of a document that *)
(* otherwise passes the checks of its template.                            *)

Doc(tpl, fname, md, files) ==
    [template |-> tpl, filename |-> fname, markdown |-> md, fs |-> files]

Keys == Range(KeyOrder)
Values == {"", "lesson", "30"}

GoodValue(tpl, k) == IF EXPECTED_YAML_HEADER(tpl)[k] = "is_numeric" THEN "30" ELSE "lesson"

(* the front matter block that holds exactly the entries of h *)
YamlBlock(h) ==
    IF DOMAIN h = {} THEN <<>>
    ELSE LET keys == sorted(DOMAIN h)
         IN  <<RuleLine>> \o [i \in 1..Len(keys) |-> YamlLine(keys[i], h[keys[i]])]
                 \o <<RuleLine>>

GoodYaml(tpl) ==
    YamlBlock([k \in DOMAIN EXPECTED_YAML_HEADER(tpl) |-> GoodValue(tpl, k)])

PrereqBox ==
    <<BoxHeaderLine(2, <<"Prerequisites">>, <<"prereq">>), Quoted(ParaLine(<<"text">>, <<>>))>>

ObjectivesBox ==
    <<BoxHeaderLine(2, <<"Learning", "Objectives">>, <<"objectives">>),
      Quoted(BulletLine(<<"text">>, <<>>))>>

TextPara == <<ParaLine(<<"text", "text">>, <<>>)>>

(* what comes before the headings *)
GoodPrefix(tpl) ==
    CASE tpl = "index" -> PrereqBox \o <<BlankLine>> \o TextPara
      [] tpl = "topic" -> ObjectivesBox \o <<BlankLine>>
      [] OTHER -> <<>>

GoodHeadings(tpl) ==
    LET hs == EXPECTED_HEADINGS(tpl)
    IN  [i \in 1..Len(hs) |-> HeaderLine(2, hs[i])]
            \o (IF tpl = "reference" THEN <<DefLine(<<"Key", "Word">>)>> ELSE <<>>)

GoodDoc(tpl) ==
    IF tpl = "license" THEN LicenseText
    ELSE GoodYaml(tpl) \o GoodPrefix(tpl) \o TextPara \o GoodHeadings(tpl)

NoFiles == [p \in {} |-> File(TRUE, <<>>)]

(* front matter: every set of keys with every choice of values, and a      *)
(* block that is not a mapping                                             *)
HeaderChoices == UNION {[S -> Values] : S \in SUBSET Keys}

HeaderDocs ==
    {Doc(tpl, NoFile, YamlBlock(h) \o GoodPrefix(tpl) \o TextPara \o GoodHeadings(tpl),
         NoFiles) : tpl \in LESSON_TEMPLATES, h \in HeaderChoices}
    \cup
    {Doc(tpl, NoFile, <<RuleLine, NotYamlLine, RuleLine>> \o GoodPrefix(tpl)
                          \o TextPara \o GoodHeadings(tpl), NoFiles) :
         tpl \in LESSON_TEMPLATES}

(* headings: every sequence of up to MaxHeadings headings of level 2 or 3  *)
(* titled as the template expects or otherwise                             *)
HeadingTitles(tpl) == Range(EXPECTED_HEADINGS(tpl)) \cup {<<"Extra">>}

HeadingLines(tpl) == {HeaderLine(lv, t) : lv \in {2, 3}, t \in HeadingTitles(tpl)}

HeadingDocs ==
    {Doc(tpl, NoFile, GoodYaml(tpl) \o GoodPrefix(tpl) \o TextPara \o hs, NoFiles) :
         tpl \in LESSON_TEMPLATES \ {"license"},
         hs \in UNION {SeqsUpTo(HeadingLines(t), MaxHeadings) : t \in LESSON_TEMPLATES}}


(* boxes: every sequence of up to MaxBoxes boxes, well formed or not       *)
QPara == Quoted(ParaLine(<<"text">>, <<>>))
QList == Quoted(BulletLine(<<"text">>, <<>>))

BoxVariants ==
    { <<BoxHeaderLine(2, <<"Prerequisites">>, <<"prereq">>), QPara>>,
      <<BoxHeaderLine(2, <<"Wrong", "title">>, <<"prereq">>), QPara>>,
      <<BoxHeaderLine(3, <<"Prerequisites">>, <<"prereq">>), QPara>>,
      <<BoxHeaderLine(2, <<"Prerequisites">>, <<"prereq">>)>>,
      <<BoxHeaderLine(2, <<"Prerequisites">>, <<"prereq">>), QList>>,
      <<BoxHeaderLine(2, <<"Prerequisites">>, <<"prereq">>), QPara, QPara>>,
      <<BoxHeaderLine(2, <<"Learning", "Objectives">>, <<"objectives">>), QList>>,
      <<BoxHeaderLine(2, <<"Wrong", "title">>, <<"objectives">>), QList>>,
      <<BoxHeaderLine(2, <<"Learning", "Objectives">>, <<"objectives">>), QPara>>,
      <<BoxHeaderLine(2, <<"Learning", "Objectives">>, <<"objectives">>)>>,
      <<BoxHeaderLine(2, <<"Learning", "Objectives">>, <<"objectives">>), QList, QPara>>,
      <<BoxHeaderLine(2, <<"Any", "title">>, <<"callout">>), QPara>>,
      <<BoxHeaderLine(2, <<"Any", "title">>, <<"callout">>)>>,
      <<BoxHeaderLine(3, <<"Any", "title">>, <<"callout">>), QPara>>,
      <<BoxHeaderLine(2, <<"Any", "title">>, <<"challenge">>), QPara>>,
      <<BoxHeaderLine(2, <<"Any", "title">>, <<"challenge">>)>>,
      <<BoxHeaderLine(2, <<"Any", "title">>, <<"other">>), QPara>>,
      <<BoxHeaderLine(2, <<"Prerequisites">>, <<>>), QPara>> }

RECURSIVE BoxLines(_)
BoxLines(bs) ==
    IF bs = <<>> THEN <<>> ELSE Head(bs) \o <<BlankLine>> \o BoxLines(Tail(bs))

BoxDocs ==
    {Doc(tpl, NoFile,
         GoodYaml(tpl) \o BoxLines(bs) \o TextPara \o GoodHeadings(tpl), NoFiles) :
         tpl \in {"index", "topic", "motivation"},
         bs \in SeqsUpTo(BoxVariants, MaxBoxes)}

(* links: one address in a paragraph of a document that is a string or a   *)
(* file of some directory, on a disk that holds the link targets or not    *)
Filenames ==
    {NoFile, <<"page", ".md">>, <<"lesson/", "page", ".md">>,
     <<"site.html/", "page", ".md">>}

TargetText == <<HeaderLine(2, <<"Intro">>), DefLine(<<"Key", "Word">>)>>

Dirs == {<<>>, <<"lesson/">>, <<"site.html/">>, RepoDir}

TargetFiles ==
    {d \o <<"target", ".md">> : d \in Dirs} \cup {d \o <<"data", ".csv">> : d \in Dirs}

BrokenFiles == {d \o <<"broken", ".md">> : d \in Dirs}

(* the disk: the document itself, and the link targets when wanted *)
Disk(fname, md, withTargets) ==
    [p \in (IF fname = NoFile THEN {} ELSE {fname})
            \cup (IF withTargets THEN TargetFiles \cup BrokenFiles ELSE {}) |->
        IF p = fname THEN File(TRUE, md)
        ELSE IF p \in BrokenFiles THEN File(FALSE, <<>>)
        ELSE File(TRUE, TargetText)]

ThirdPartyAddresses ==
    {<<pre, "website.com/", "filename", ".html">> :
        pre \in {"http://", "HTTP://", "https://", "Https://", "ftp://", "FTP://"}}
    \cup {<<"mailto:", "someone">>}

Fragments == {<<>>, <<"#">>} \cup {<<"#">> \o sl : sl \in Slugs}

LocalAddresses ==
    {pre \o name \o ext \o frag :
        pre \in {<<>>, <<"www.website.com/">>, <<"MAILTO:">>},
        name \in {<<"target">>, <<"missing">>, <<"data">>, <<"broken">>},
        ext \in {<<>>, <<".html">>, <<".htm">>, <<".HTML">>, <<".csv">>, <<".md">>},
        frag \in Fragments}
    \cup Fragments

LinkAddresses == ThirdPartyAddresses \cup LocalAddresses

LinkDoc(tpl, fname, links, withTargets) ==
    LET md == GoodYaml(tpl) \o GoodPrefix(tpl) \o <<ParaLine(<<"text">>, links)>>
                  \o GoodHeadings(tpl)
    IN  Doc(tpl, fname, md, Disk(fname, md, withTargets))

LinkDocs ==
    {LinkDoc(tpl, fname, <<a>>, wt) :
        tpl \in {"index", "motivation"}, fname \in Filenames,
        a \in LinkAddresses, wt \in BOOLEAN}

(* several links in one document, one of them nested in a box *)
FewAddresses ==
    {<<"http://", "website.com/", "filename", ".html">>, <<"target", ".html">>,
     <<"missing", ".html">>, <<"data", ".csv">>, <<"missing", ".csv">>}

ManyLinkDocs ==
    {LinkDoc("discussion", fname, links, TRUE) :
        fname \in {NoFile, <<"page", ".md">>},
        links \in SeqsUpTo(FewAddresses, MaxLinks)}
    \cup
    {Doc("topic", NoFile,
         GoodYaml("topic") \o <<Head(ObjectivesBox), Quoted(BulletLine(<<"text">>, <<a>>))>>,
         Disk(NoFile, <<>>, TRUE)) : a \in FewAddresses}

(* work-in-progress markers, and the unmodified documents of each template *)
FixmeDocs ==
    {Doc(tpl, NoFile,
         GoodYaml(tpl) \o GoodPrefix(tpl) \o <<ParaLine(<<"text", w>>, <<>>)>>
             \o GoodHeadings(tpl), NoFiles) :
        tpl \in LESSON_TEMPLATES, w \in {"FIXME", "FiXmE", "fixme", "text"}}
    \cup {Doc(tpl, NoFile, GoodDoc(t2), NoFiles) :
             tpl \in LESSON_TEMPLATES, t2 \in LESSON_TEMPLATES}
    \cup {Doc(tpl, NoFile, <<>>, NoFiles) : tpl \in LESSON_TEMPLATES}

(* the opening of an index page: up to two blocks before the headings *)
IntroBlocks ==
    { TextPara,
      PrereqBox,
      <<BoxHeaderLine(2, <<"Prerequisites">>, <<"prereq">>), QList>>,
      <<QPara, QPara>>,
      <<HeaderLine(2, <<"Extra">>)>> }

IntroDocs ==
    {Doc("index", NoFile, GoodYaml("index") \o BoxLines(bs) \o GoodHeadings("index"),
         NoFiles) : bs \in SeqsUpTo(IntroBlocks, 2)}
    \cup {Doc("index", NoFile, GoodYaml("index") \o BoxLines(bs), NoFiles) :
              bs \in SeqsUpTo(IntroBlocks, 1)}

(* the body of a reference page: up to MaxGlossaryNodes blocks.  A          *)
(* definition line stands for a whole definition list, so two of them are  *)
(* never adjacent.                                                         *)
GlossaryLines ==
    {HeaderLine(2, <<"Glossary">>), HeaderLine(2, <<"Extra">>), DefLine(<<"Key", "Word">>),
     ParaLine(<<"text">>, <<>>)}

GlossaryBodies ==
    {b \in SeqsUpTo(GlossaryLines, MaxGlossaryNodes) :
        \A i \in 1..(Len(b) - 1) :
            ~(b[i].kind = "DefinitionList" /\ b[i + 1].kind = "DefinitionList")}

GlossaryDocs ==
    {Doc("reference", NoFile, GoodYaml("reference") \o b, NoFiles) : b \in GlossaryBodies}

(* markers on several lines: up to MaxMarkerLines lines after the front    *)
(* matter, which may hold a marker too                                     *)
MarkerLines ==
    {ParaLine(<<"text">>, <<>>), ParaLine(<<"text", "FiXmE">>, <<>>),
     Quoted(ParaLine(<<"(FIXME).">>, <<>>)), HeaderLine(2, <<"fixme">>)}

MarkerDocs ==
    {Doc(tpl, NoFile, y \o ls, NoFiles) :
        tpl \in {"motivation", "topic"},
        y \in {GoodYaml("motivation"),
               YamlBlock([k \in {"layout", "title"} |->
                             IF k = "title" THEN "FIXME" ELSE "lesson"])},
        ls \in SeqsUpTo(MarkerLines, MaxMarkerLines)}

(* documents that link to themselves and to each other: lesson/page.md    *)
(* and lesson/target.md, each with up to MaxCycleLinks links               *)
CyclePage == <<"lesson/", "page", ".md">>
CycleTarget == <<"lesson/", "target", ".md">>

OwnCycleLinks ==
    {<<"target", ".html", "#", "intro">>, <<"page", ".html", "#", "intro">>,
     <<"target", ".html">>}

TargetCycleLinks ==
    {<<"page", ".html", "#", "intro">>, <<"target", ".html", "#", "intro">>,
     <<"page", ".html">>, <<"missing", ".html">>}

CycleText(links) ==
    GoodYaml("discussion") \o <<HeaderLine(2, <<"Intro">>), ParaLine(<<"text">>, links)>>

CycleDisk(own, other) ==
    [p \in {CyclePage, CycleTarget} |->
        File(TRUE, IF p = CyclePage THEN CycleText(own) ELSE CycleText(other))]

CycleDocs ==
    {Doc("discussion", CyclePage, CycleText(own), CycleDisk(own, other)) :
        own \in SeqsUpTo(OwnCycleLinks, MaxCycleLinks),
        other \in SeqsUpTo(TargetCycleLinks, MaxCycleLinks)}

Documents == CycleDocs \cup HeaderDocs \cup HeadingDocs \cup BoxDocs \cup LinkDocs \cup ManyLinkDocs
                 \cup FixmeDocs \cup IntroDocs \cup GlossaryDocs \cup MarkerDocs

----------------------------------------------------------------------------
(* The lesson directories and the runs explored: a directory holds the     *)
(* required files, all but one of them, or none, with at most one          *)
(* defective file and at most one file more.                               *)

Invocation(entry, paths, tpl, listing) ==
    [entry |-> entry, paths |-> paths, template |-> tpl, listing |-> listing]

LessonDir == <<"lesson/">>

RequiredNames ==
    {<<"0", "1", "-", "intro", ".md">>, <<"discussion", ".md">>, <<"index", ".md">>,
     <<"instructor", "s", ".md">>, <<"LICENSE", ".md">>, <<"motivation", ".md">>,
     <<"README", ".md">>, <<"reference", ".md">>}

ExtraNames == Range(NameOrder) \ RequiredNames

(* a link whose target exists and cannot be read *)
BrokenLink == <<"fig/", "broken", ".html", "#", "intro">>
BrokenTarget == LessonDir \o <<"fig/", "broken", ".md">>

FileText(name, variant) ==
    LET tpl == identify_template(TemplateOrder, name)
        base == IF tpl = NoTemplate THEN TextPara ELSE GoodDoc(tpl)
    IN  CASE variant = "fixme" -> base \o <<ParaLine(<<"text", "FIXME">>, <<>>)>>
          [] variant = "raises" -> base \o <<ParaLine(<<"text">>, <<BrokenLink>>)>>
          [] OTHER -> base

NoDefect == [name |-> <<>>, variant |-> "good"]

Defects ==
    {NoDefect} \cup {[name |-> n, variant |-> v] :
                        n \in RequiredNames, v \in {"fixme", "raises", "unreadable"}}

(* the files that are never to be opened cannot be read *)
LessonDisk(present, defect, extras) ==
    [p \in {LessonDir \o n : n \in present \cup extras} \cup {BrokenTarget} |->
        LET n == basename(p)
        IN  IF p = BrokenTarget THEN File(FALSE, <<>>)
            ELSE IF n = defect.name
            THEN File(defect.variant # "unreadable", FileText(n, defect.variant))
            ELSE IF n = <<"CONDUCT", ".md">> THEN File(FALSE, <<NotYamlLine>>)
            ELSE File(TRUE, FileText(n, "good"))]

ExtraChoices == {{}} \cup {{n} : n \in ExtraNames}

FullDisks == {LessonDisk(RequiredNames, df, ex) : df \in Defects, ex \in ExtraChoices}

PartialDisks ==
    {LessonDisk(RequiredNames \ {n}, NoDefect, ex) : n \in RequiredNames, ex \in ExtraChoices}
    \cup {LessonDisk({}, NoDefect, ex) : ex \in ExtraChoices}

BigDisk == LessonDisk(RequiredNames, NoDefect, ExtraNames)

Run(inv, files) == [invocation |-> inv, fs |-> files]

(* one directory, through the command line or through validate_folder *)
DirRuns ==
    {Run(Invocation(e, <<LessonDir>>, NoTemplate, l), d) :
        e \in {"main", "folder"}, l \in {"sorted", "reverse"},
        d \in FullDisks \cup PartialDisks}
    \cup {Run(Invocation(e, <<LessonDir>>, "motivation", "sorted"),
              LessonDisk(RequiredNames, NoDefect, {})) : e \in {"main", "folder"}}

(* up to MaxArgs paths on the command line *)
ArgPaths ==
    {LessonDir, LessonDir \o <<"index", ".md">>, LessonDir \o <<"notes", ".md">>,
     <<"nosuch", ".md">>, <<"nosuch/">>}

ArgRuns ==
    {Run(Invocation("main", ps, NoTemplate, "sorted"), d) :
        ps \in SeqsUpTo(ArgPaths, MaxArgs) \ {<<>>},
        d \in {LessonDisk(RequiredNames, NoDefect, {<<"notes", ".md">>}),
               LessonDisk(RequiredNames, [name |-> <<"index", ".md">>, variant |-> "fixme"],
                          {<<"notes", ".md">>})}}

(* validate_single called on one path, on disk or not *)
SinglePaths ==
    {LessonDir \o n : n \in Range(NameOrder)}
    \cup {<<"nosuch/", "README", ".md">>, <<"nosuch/", "index", ".md">>,
          <<"nosuch/", "notes", ".md">>}

SingleRuns ==
    {Run(Invocation("single", <<p>>, t, "sorted"), d) :
        p \in SinglePaths, t \in {NoTemplate, "index", "license"},
        d \in {BigDisk} \cup {LessonDisk(RequiredNames, df, {}) : df \in Defects}}

Runs == DirRuns \cup ArgRuns \cup SingleRuns

----------------------------------------------------------------------------
(* The validator object right after construction, then validate()          *)

Init ==
    /\ \E d \in Documents :
          /\ template = d.template
          /\ filename = d.filename
          /\ markdown = d.markdown
          /\ fs = d.fs
    /\ pc = TestOrder(template)[1]
    /\ tests = NoTests
    /\ prev = NoTests
    /\ result = Unrun
    /\ log = <<>>
    /\ fsAccess = {}
    /\ invocation = Invocation("validator", <<>>, NoTemplate, "sorted")
    /\ mpc = "validator"
    /\ files_to_validate = <<>>
    /\ dirs_to_validate = <<>>
    /\ all_valid = True
    /\ exit_status = <<>>
    /\ returned = Unrun
    /\ calls = <<>>
    /\ main_log = <<>>
    /\ reader = <<>>
    /\ position = 0
    /\ echo = FALSE
    /\ writer = <<>>
    /\ epc = "idle"

Next ==
    \/ RunNoFixme
    \/ RunHeader
    \/ RunHeadings
    \/ RunBoxes
    \/ RunLinks
    \/ RunIntro
    \/ RunGlossary
    \/ RunLicense
    \/ Return
    \/ EditAnchor

Spec == Init /\ [][Next]_vars

----------------------------------------------------------------------------
(* The program entered through main(), validate_folder() or                *)
(* validate_single(): the files are read from the disk                     *)

BatchInit ==
    /\ \E r \in Runs :
          /\ invocation = r.invocation
          /\ fs = r.fs
    /\ mpc = IF invocation.entry = "single" THEN "files" ELSE "start"
    /\ files_to_validate = IF invocation.entry = "single" THEN invocation.paths ELSE <<>>
    /\ dirs_to_validate = <<>>
    /\ all_valid = True
    /\ exit_status = <<>>
    /\ returned = Unrun
    /\ calls = <<>>
    /\ main_log = <<>>
    /\ reader = <<>>
    /\ position = 0
    /\ echo = FALSE
    /\ writer = <<>>
    /\ epc = "idle"
    /\ template = NoTemplate
    /\ filename = NoFile
    /\ markdown = <<>>
    /\ pc = "idle"
    /\ tests = NoTests
    /\ prev = NoTests
    /\ result = Unrun
    /\ log = <<>>
    /\ fsAccess = {}

BatchNext ==
    \/ main_get_files
    \/ main_check_required
    \/ validate_folder
    \/ validate_single
    \/ RunNoFixme
    \/ RunHeader
    \/ RunHeadings
    \/ RunBoxes
    \/ RunLinks
    \/ RunIntro
    \/ RunGlossary
    \/ RunLicense
    \/ Return
    \/ validate_single_return
    \/ validate_folder_return
    \/ main_exit

BatchSpec == BatchInit /\ [][BatchNext]_vars

----------------------------------------------------------------------------
(* tools/extract_challenges.py.  A line is the sequence of its parts, the  *)
(* newline included: <<">", " ", "text", "\n">>.                           *)

IsSpace(t) == t \in {" ", "\n"}

(* title_pat = r'^>\s+.+\{.challenge\}' : '>' first, white space, at least *)
(* one more character, then the class                                      *)
title_pat_search(line) ==
    /\ Len(line) >= 4
    /\ line[1] = ">"
    /\ IsSpace(line[2])
    /\ \E k \in 4..Len(line) :
          /\ line[k] = "{.challenge}"
          /\ \A j \in 3..(k - 1) : line[j] # "\n"

(* '>' anywhere in the line *)
block_pat_search_unanchored(line) == \E i \in 1..Len(line) : line[i] = ">"

(* block_pat = r'^>' *)
block_pat_search(line) == line # <<>> /\ line[1] = ">"

RECURSIVE rstrip(_)
rstrip(line) ==
    IF line = <<>> THEN <<>>
    ELSE IF IsSpace(line[Len(line)]) THEN rstrip(SubSeq(line, 1, Len(line) - 1))
    ELSE line

(* what "print >> writer" writes *)
EmptyLine == <<>>

(* one pass of the loop of extract() *)
extract_line ==
    /\ epc = "loop"
    /\ position < Len(reader)
    /\ LET line == reader[position + 1]
           echo1 == IF title_pat_search(line) THEN TRUE ELSE echo
           off == echo1 /\ ~block_pat_search(line)
           echo2 == IF off THEN FALSE ELSE echo1
           w1 == IF off THEN Append(writer, EmptyLine) ELSE writer
       IN  /\ echo' = echo2
           /\ writer' = IF echo2 THEN Append(w1, rstrip(line)) ELSE w1
    /\ position' = position + 1
    /\ UNCHANGED <<validatorVars, driverVars, fs, prev, reader, epc>>

(* the reader is exhausted: the closing "print >> writer" *)
extract_end ==
    /\ epc = "loop"
    /\ position = Len(reader)
    /\ writer' = Append(writer, EmptyLine)
    /\ epc' = "done"
    /\ UNCHANGED <<validatorVars, driverVars, fs, prev, reader, position, echo>>

(* the input lines explored *)
LineKinds ==
    { <<">", " ", "##", " ", "Title", " ", "{.challenge}", "\n">>,
      <<">", " ", "text", "\n">>,
      <<">", " ", "text", " ", "\n">>,
      <<"text", "\n">>,
      <<"\n">>,
      <<">", " ", "##", " ", "Title", " ", "{.callout}", "\n">>,
      <<"##", " ", "Title", " ", "{.challenge}", "\n">>,
      <<">", "##", " ", "Title", " ", "{.challenge}", "\n">>,
      <<" ", ">", " ", "text", "\n">>,
      <<">", " ", "{.challenge}", "\n">> }

ExtractInit ==
    /\ reader \in SeqsUpTo(LineKinds, MaxLines)
    /\ position = 0
    /\ echo = FALSE
    /\ writer = <<>>
    /\ epc = "loop"
    /\ invocation = Invocation("extract", <<>>, NoTemplate, "sorted")
    /\ mpc = "extract"
    /\ fs = NoFiles
    /\ files_to_validate = <<>>
    /\ dirs_to_validate = <<>>
    /\ all_valid = True
    /\ exit_status = <<>>
    /\ returned = Unrun
    /\ calls = <<>>
    /\ main_log = <<>>
    /\ template = NoTemplate
    /\ filename = NoFile
    /\ markdown = <<>>
    /\ pc = "idle"
    /\ tests = NoTests
    /\ prev = NoTests
    /\ result = Unrun
    /\ log = <<>>
    /\ fsAccess = {}

ExtractNext ==
    \/ extract_line
    \/ extract_end

ExtractSpec == ExtractInit /\ [][ExtractNext]_vars

----------------------------------------------------------------------------
(* Vocabulary of the properties.  A property about the value of a check    *)
(* speaks of the calls that hand a value back; a check "fails" when it     *)
(* does not return True (it returns False, or raises the IndexError that   *)
(* validate() reports as a failed document).                               *)

Ran(name) == tests[name] # Unrun
Passes(name) == tests[name] = True
Fails(name) == Ran(name) /\ tests[name] # True

Headings == get_headings(ast)
HeadingTitlesFound == LET hs == Headings IN [i \in 1..Len(hs) |-> hs[i][2]]
AllLevelTwo == LET hs == Headings IN \A i \in 1..Len(hs) : hs[i][1] = 2

Boxes == get_boxes(ast)
KnownBoxTypes == {"callout", "challenge", "objectives", "prereq"}

(* the shape rule of a box, by its type *)
ShapeOK(box) ==
    CASE get_box_type(box) \in {"callout", "challenge"} -> Len(box.c) >= 2
      [] get_box_type(box) = "objectives" -> Len(box.c) = 2 /\ box.c[2].t = "BulletList"
      [] get_box_type(box) = "prereq" ->
            /\ get_box_title(box) = <<"Prerequisites">>
            /\ Len(box.c) = 2
            /\ box.c[2].t = "Para"
      [] OTHER -> FALSE

(* number of shape-valid boxes of a type *)
TallyIn(bs, t) == Cardinality({i \in 1..Len(bs) : get_box_type(bs[i]) = t /\ ShapeOK(bs[i])})
Tally(t) == TallyIn(Boxes, t)

CardinalityError(t) ==
    \E i \in 1..Len(log) :
        /\ log[i].arg = <<t>>
        /\ log[i].msg \in {"Missing box", "Should be at least min and no more than max box"}

Links == get_links(ast.body)

----------------------------------------------------------------------------
(* C1: for every template other than license, validate() returns true      *)
(* exactly when every sub-check of the template returned true (the five    *)
(* base checks, plus the intro check for index and the glossary check for  *)
(* reference), and returns false when any one of them returned false.      *)

SubChecks(tpl) ==
    {"no_fixme", "header", "headings", "boxes", "links"}
        \cup (IF tpl = "index" THEN {"intro"} ELSE {})
        \cup (IF tpl = "reference" THEN {"glossary"} ELSE {})

C1_ValidateIsConjunction ==
    (pc = "done" /\ template # "license") =>
        /\ result \in {True, False}
        /\ result = True <=> \A c \in SubChecks(template) : Passes(c)
        /\ (\E c \in SubChecks(template) : tests[c] = False) => result = False

C1_Witness ==
    /\ pc = "done"
    /\ template = "index"
    /\ result = False
    /\ tests["intro"] = False
    /\ \A c \in SubChecks("index") \ {"intro"} : Passes(c)

----------------------------------------------------------------------------
(* C2: the front-matter check fails when the document has no front matter, *)
(* passes when the keys present are exactly the expected keys and every    *)
(* value satisfies the validator of its key, and for a non-empty front     *)
(* matter passes in no other case.                                         *)

KeysPresent == DOMAIN ast.header

ExpectedKeys(tpl) ==
    CASE tpl = "index" -> {"layout", "title"}
      [] tpl = "topic" -> {"layout", "title", "subtitle", "minutes"}
      [] tpl = "license" -> {}
      [] OTHER -> {"layout", "title", "subtitle"}

ValueValid(h, k) == IF k = "minutes" THEN h[k] \in NumericLiterals ELSE h[k] # ""

ExactFrontMatter(h) ==
    DOMAIN h = ExpectedKeys(template) /\ \A k \in DOMAIN h : ValueValid(h, k)

C2_FrontMatterExact ==
    Ran("header") =>
        LET h == ast.header
        IN  /\ DOMAIN h = {} => tests["header"] = False
            /\ ExactFrontMatter(h) => tests["header"] = True
            /\ (DOMAIN h # {} /\ tests["header"] = True) => ExactFrontMatter(h)

C2_Witness ==
    /\ template = "topic"
    /\ tests["header"] = True
    /\ KeysPresent = {"layout", "title", "subtitle", "minutes"}

----------------------------------------------------------------------------
(* C3: for index and topic (extra headings are reported) the heading check *)
(* passes exactly when every top-level heading is level 2 and the titles   *)
(* are the expected ones in the expected order; a topic page with any      *)
(* top-level heading fails.                                                *)

ExpectedTitles(tpl) ==
    CASE tpl = "index" -> << <<"Topics">>, <<"Other", "Resources">> >>
      [] tpl = "reference" -> << <<"Glossary">> >>
      [] tpl = "instructor" -> << <<"Legend">>, <<"Overall">> >>
      [] OTHER -> <<>>

C3_HeadingsExactOrder ==
    (Ran("headings") /\ template \in {"index", "topic"}) =>
        /\ tests["headings"] = True <=>
              (AllLevelTwo /\ HeadingTitlesFound = ExpectedTitles(template))
        /\ (template = "topic" /\ Len(Headings) > 0) => tests["headings"] = False

C3_Witness ==
    /\ template = "index"
    /\ tests["headings"] = False
    /\ AllLevelTwo
    /\ HeadingTitlesFound = << <<"Other", "Resources">>, <<"Topics">> >>

----------------------------------------------------------------------------
(* C4 as stated: for every template the heading check passes when the      *)
(* top-level headings are the expected sequence, and fails after any       *)
(* single insertion, deletion or transposition of adjacent headings.       *)

ExpectedSeq(tpl) == [i \in 1..Len(ExpectedTitles(tpl)) |-> <<2, ExpectedTitles(tpl)[i]>>]

Without(s, i) == SubSeq(s, 1, i - 1) \o SubSeq(s, i + 1, Len(s))

Swapped(s, i) == [j \in 1..Len(s) |-> IF j = i THEN s[i + 1] ELSE IF j = i + 1 THEN s[i] ELSE s[j]]

IsInsertion(s, e) == Len(s) = Len(e) + 1 /\ \E i \in 1..Len(s) : Without(s, i) = e
IsDeletion(s, e) == IsInsertion(e, s)
IsTransposition(s, e) == \E i \in 1..(Len(e) - 1) : s = Swapped(e, i)

C4_AnyEditFails ==
    Ran("headings") =>
        LET hs == Headings
            es == ExpectedSeq(template)
        IN  /\ hs = es => tests["headings"] = True
            /\ (IsInsertion(hs, es) \/ IsDeletion(hs, es) \/ IsTransposition(hs, es))
                   => tests["headings"] = False

(* C4 amended: the heading check passes on the expected sequence and fails *)
(* after any single deletion; after a single insertion or transposition it *)
(* fails for the templates that report extra headings (index, topic).      *)
C4_EditFailsWhereExtrasReported ==
    Ran("headings") =>
        LET hs == Headings
            es == ExpectedSeq(template)
        IN  /\ hs = es => tests["headings"] = True
            /\ IsDeletion(hs, es) => tests["headings"] = False
            /\ (/\ template \in {"index", "topic"}
                /\ IsInsertion(hs, es) \/ IsTransposition(hs, es))
                   => tests["headings"] = False

C4_Witness ==
    /\ template = "index"
    /\ IsInsertion(Headings, ExpectedSeq("index"))
    /\ AllLevelTwo
    /\ tests["headings"] = False

----------------------------------------------------------------------------
(* C5: for motivation, reference, instructor and discussion (extra         *)
(* headings are tolerated) the heading check passes exactly when every     *)
(* top-level heading is level 2 and each expected title occurs among the   *)
(* top-level titles, whatever else is there and in whatever order.         *)

C5_HeadingsPresenceOnly ==
    (Ran("headings") /\ template \in {"motivation", "reference", "instructor", "discussion"}) =>
        (tests["headings"] = True <=>
            /\ AllLevelTwo
            /\ \A i \in 1..Len(ExpectedTitles(template)) :
                   ExpectedTitles(template)[i] \in Range(HeadingTitlesFound))

C5_Witness ==
    /\ template = "instructor"
    /\ tests["headings"] = True
    /\ HeadingTitlesFound = << <<"Overall">>, <<"Extra">>, <<"Legend">> >>

----------------------------------------------------------------------------
(* C6: for every box type the template declares, the box check fails when  *)
(* the number of shape-valid boxes of the type is below min or above max;  *)
(* at count = min = max, for an absent type with min 0, and for an         *)
(* unbounded max with count >= min, no cardinality error is raised.        *)

DeclaredBoxes(tpl) ==
    CASE tpl = "index" -> {"prereq"}
      [] tpl = "topic" -> {"objectives", "callout", "challenge"}
      [] OTHER -> {}

MinBoxes(t) == IF t \in {"prereq", "objectives"} THEN 1 ELSE 0
Bounded(t) == t \in {"prereq", "objectives"}
MaxBoxesOf(t) == IF Bounded(t) THEN 1 ELSE 0

Absent(t) == LET bs == Boxes IN \A i \in 1..Len(bs) : get_box_type(bs[i]) # t

C6_BoxCardinality ==
    Ran("boxes") =>
        \A t \in DeclaredBoxes(template) :
            LET n == Tally(t)
            IN  /\ (n < MinBoxes(t) \/ (Bounded(t) /\ n > MaxBoxesOf(t)))
                       => Fails("boxes")
                /\ (Bounded(t) /\ n = MinBoxes(t) /\ n = MaxBoxesOf(t))
                       => ~CardinalityError(t)
                /\ (MinBoxes(t) = 0 /\ Absent(t)) => ~CardinalityError(t)
                /\ (~Bounded(t) /\ n >= MinBoxes(t)) => ~CardinalityError(t)

C6_Witness ==
    /\ template = "index"
    /\ tests["boxes"] = False
    /\ Tally("prereq") = 2
    /\ \A i \in 1..Len(Boxes) : get_box_type(Boxes[i]) = "prereq" /\ ShapeOK(Boxes[i])
                                  /\ get_box_level(Boxes[i]) = 2

----------------------------------------------------------------------------
(* C7: the box check fails for any document that contains a box whose type *)
(* is not a key of the template's expectedBoxes, even when every declared  *)
(* type satisfies its cardinality.                                         *)

C7_UndeclaredBoxFails ==
    (Ran("boxes") /\ \E i \in 1..Len(Boxes) :
                          get_box_type(Boxes[i]) \notin DeclaredBoxes(template))
        => Fails("boxes")

----------------------------------------------------------------------------
(* C8: the box check fails if some box has a header that is not level 2,   *)
(* has no type or a type other than callout, challenge, objectives and     *)
(* prereq, or violates the shape rule of its type; a box that violates its *)
(* shape rule is not counted in the tally of its type.                     *)

BadBox(box) ==
    \/ get_box_level(box) # 2
    \/ get_box_type(box) \notin KnownBoxTypes
    \/ ~ShapeOK(box)

----------------------------------------------------------------------------
(* C9: a link whose target starts with http://, https:// or ftp:// in any  *)
(* letter case, or with mailto:, passes the link check and no file is      *)
(* looked up; any other target is a local path and passes only if a file   *)
(* it was resolved to exists.                                              *)

ThirdPartyPrefixes ==
    {"http://", "HTTP://", "https://", "Https://", "ftp://", "FTP://", "mailto:"}

StartsThirdParty(address) == address # <<>> /\ address[1] \in ThirdPartyPrefixes

C9_ThirdPartyOrLocal ==
    (Ran("links") /\ Len(Links) = 1) =>
        /\ StartsThirdParty(Links[1]) => (tests["links"] = True /\ fsAccess = {})
        /\ (~StartsThirdParty(Links[1]) /\ tests["links"] = True)
               => fsAccess \cap DOMAIN fs # {}

C9_Witness ==
    /\ Links = << <<"www.website.com/", "target", ".html">> >>
    /\ tests["links"] = False
    /\ fsAccess = {RepoDir \o <<"www.website.com/", "target", ".md">>}

----------------------------------------------------------------------------
(* C10: a document whose only link is target.html#slug passes the link     *)
(* check if and only if target.md exists in the document's directory and   *)
(* its anchor set contains slug; replacing slug by a slug absent from that *)
(* anchor set makes the link check fail and changes the result of no other *)
(* sub-check.                                                              *)

OnlyAnchorReference == Len(Links) = 1 /\ IsAnchorReference(Links[1])

(* target.md in the directory of the document *)
TargetMd ==
    LET dest == SplitDest(Links[1])
    IN  lesson_dir(filename) \o SubSeq(dest, 1, Len(dest) - 1) \o <<".md">>

TargetHasAnchor ==
    /\ TargetMd \in DOMAIN fs
    /\ fs[TargetMd].readable
    /\ SplitAnchor(Links[1]) \in PandocAstHelper(fs[TargetMd].text).anchors

Edited == prev # NoTests

C10_AnchorRoundTrip ==
    (Ran("links") /\ OnlyAnchorReference) =>
        /\ tests["links"] = True <=> TargetHasAnchor
        /\ Edited =>
              /\ ~TargetHasAnchor => Fails("links")
              /\ \A c \in TestNames \ {"links"} :
                     (Ran(c) /\ prev[c] # Unrun) => tests[c] = prev[c]

----------------------------------------------------------------------------
(* C11: the intro check of an index page returns true exactly when the     *)
(* first body node is a Paragraph and the second is a BlockQuote whose     *)
(* first child is a Header and whose second child is a Paragraph; when it  *)
(* logs one of its "must be" warnings it returns false, and it logs none   *)
(* when it returns true.                                                   *)

Body == ast.body

IntroShape ==
    LET b == Body
    IN  /\ Len(b) >= 2
        /\ b[1].t = "Para"
        /\ b[2].t = "BlockQuote"
        /\ Len(b[2].c) >= 2
        /\ b[2].c[1].t = "Header"
        /\ b[2].c[2].t = "Para"

MustBeWarnings ==
    {"The first element must be a paragraph",
     "The second element must be a blockquote",
     "The first element at the blockquote must be a header",
     "The second element at the blockquote must be a header"}

MustBeLogged == \E i \in 1..Len(log) : log[i].msg \in MustBeWarnings

C11_IntroShape ==
    (template = "index" /\ Ran("intro")) =>
        /\ tests["intro"] = True <=> IntroShape
        /\ MustBeLogged => tests["intro"] = False
        /\ tests["intro"] = True => ~MustBeLogged

----------------------------------------------------------------------------
(* C12: on a reference page the glossary check fails, with the "Missing    *)
(* glossary entry" diagnostic, when the node that immediately follows the  *)
(* "Glossary" heading is not a DefinitionList.                             *)

(* positions of the top-level headings titled "Glossary" *)
GlossaryHeadings(b) == {i \in 1..Len(b) : b[i].t = "Header" /\ b[i].title = <<"Glossary">>}

Logged(msg) == \E i \in 1..Len(log) : log[i].msg = msg

C12_GlossaryNeedsDefinitionList ==
    (template = "reference" /\ Ran("glossary")) =>
        LET b == Body
            hs == GlossaryHeadings(b)
        IN  (hs # {} /\ Min(hs) < Len(b) /\ b[Min(hs) + 1].t # "DefinitionList") =>
                (tests["glossary"] = False /\ Logged("Missing glossary entry"))

----------------------------------------------------------------------------
(* C13: on a reference page the glossary check fails when a top-level node *)
(* follows the glossary entry (the node right after the "Glossary"         *)
(* heading), when there is no "Glossary" heading, and when nothing follows *)
(* the heading; a "Glossary" heading followed by a single definition list  *)
(* as the last node passes.                                                *)

C13_GlossaryEntryIsLast ==
    (template = "reference" /\ Ran("glossary")) =>
        LET b == Body
            hs == GlossaryHeadings(b)
        IN  /\ hs = {} => tests["glossary"] = False
            /\ (hs # {} /\ Min(hs) = Len(b)) => tests["glossary"] = False
            /\ (hs # {} /\ Min(hs) + 1 < Len(b)) => tests["glossary"] = False
            /\ (hs # {} /\ Min(hs) + 1 = Len(b) /\ b[Len(b)].t = "DefinitionList")
                   => tests["glossary"] = True

C13_Witness ==
    /\ template = "reference"
    /\ tests["glossary"] = False
    /\ Len(Body) = 3
    /\ GlossaryHeadings(Body) = {1}
    /\ Body[2].t = "DefinitionList"
    /\ Body[3].t = "Para"
    /\ Logged("Extra element after glossary")
    /\ ~Logged("Missing glossary entry")

----------------------------------------------------------------------------
(* C14: for the license template validate() returns true exactly when the  *)
(* digest of the exact document text equals the stored digest; none of the *)
(* structural checks is run, so front matter, headings, boxes, links and   *)
(* FIXME markers have no part in the result.                               *)

StructuralChecks == {"no_fixme", "header", "headings", "boxes", "links", "intro", "glossary"}

C14_LicenseHashOnly ==
    (template = "license" /\ pc \in {"done", "raised"}) =>
        /\ pc = "done"
        /\ result = True <=> md5(markdown) = md5(LicenseText)
        /\ result = False <=> md5(markdown) # md5(LicenseText)
        /\ \A c \in StructuralChecks : tests[c] = Unrun
        /\ fsAccess = {}
        /\ \A i \in 1..Len(log) :
               log[i].msg = "The provided license file should not be modified"

(* the reference text has no front matter and still passes *)
C14_Witness ==
    /\ template = "license"
    /\ pc = "done"
    /\ result = True
    /\ markdown = LicenseText
    /\ ~HasYaml(markdown)
    /\ tests["header"] = Unrun

----------------------------------------------------------------------------
(* C15: at most one of the seven filename patterns matches a basename, so  *)
(* identify_template returns the same template whatever the order of the   *)
(* template table; when no pattern matches and no template is given,       *)
(* validate_single returns false without constructing a validator or       *)
(* running any check.                                                      *)

MatchingTemplates(name) == {t \in LESSON_TEMPLATES : PatternMatches(t, name)}

(* every path handed to validate_single so far, or still to be *)
PathsSeen == Range(files_to_validate) \cup {calls[i].file : i \in 1..Len(calls)}

C15_DispatchDeterministic ==
    /\ \A p \in PathsSeen : Cardinality(MatchingTemplates(basename(p))) <= 1
    /\ \A i \in 1..Len(calls) :
           (invocation.template = NoTemplate /\ basename(calls[i].file) \notin SKIP_FILES) =>
               /\ \A o \in TableOrders :
                      calls[i].template = identify_template(o, calls[i].file)
               /\ calls[i].template = NoTemplate =>
                      /\ calls[i].res = False
                      /\ ~calls[i].opened
                      /\ invocation.entry = "single" =>
                             (pc = "idle" /\ tests = NoTests /\ log = <<>> /\ fsAccess = {})

(* instructor.md is on the disk and is no instructors.md *)
C15_Witness ==
    /\ invocation.entry = "single"
    /\ invocation.template = NoTemplate
    /\ returned = False
    /\ calls = <<Call(LessonDir \o <<"instructor", ".md">>, NoTemplate, False, FALSE)>>
    /\ LessonDir \o <<"instructor", ".md">> \in DOMAIN fs
    /\ tests = NoTests

----------------------------------------------------------------------------
(* C16: validate_single returns true for every path whose basename is in   *)
(* the skip-list, before any template is resolved: whatever the content of *)
(* the file, whether or not it exists, whether or not a template was       *)
(* passed; the file is never opened.                                       *)

SkipNames ==
    {<<"README", ".md">>, <<"CONTRIBUTING", ".md">>, <<"CONDUCT", ".md">>,
     <<"DESIGN", ".md">>, <<"FAQ", ".md">>, <<"LAYOUT", ".md">>}

C16_SkipListFirst ==
    \A i \in 1..Len(calls) :
        basename(calls[i].file) \in SkipNames =>
            /\ calls[i].res = True
            /\ ~calls[i].opened
            /\ calls[i].template = NoTemplate
            /\ invocation.entry = "single" =>
                   (returned = True /\ pc = "idle" /\ tests = NoTests /\ fsAccess = {})

(* a README.md that does not exist, with an explicit template *)
C16_Witness ==
    /\ invocation.entry = "single"
    /\ invocation.template = "license"
    /\ calls = <<Call(<<"nosuch/", "README", ".md">>, NoTemplate, True, FALSE)>>
    /\ <<"nosuch/", "README", ".md">> \notin DOMAIN fs
    /\ returned = True

----------------------------------------------------------------------------
(* C17: validating a directory gives false when the directory holds no     *)
(* *.md file, and false when a required file pattern (01-*.md,             *)
(* discussion.md, index.md, instructors.md, LICENSE.md, motivation.md,     *)
(* README.md, reference.md) matches nothing in it; otherwise every *.md    *)
(* file of the directory is validated and the result is the AND of the     *)
(* results.  The required files are checked by main, for each directory of *)
(* the command line; validate_folder does the rest.                        *)

(* the *.md files directly in dir *)
MdFilesIn(dir) ==
    {f \in DOMAIN fs : dirname(f) = dir /\ Last(f) = ".md"}

RequiredPresent(dir) ==
    /\ \E f \in MdFilesIn(dir) :
           Len(basename(f)) >= 4 /\ SubSeq(basename(f), 1, 3) = <<"0", "1", "-">>
    /\ \A n \in {<<"discussion", ".md">>, <<"index", ".md">>, <<"instructor", "s", ".md">>,
                 <<"LICENSE", ".md">>, <<"motivation", ".md">>, <<"README", ".md">>,
                 <<"reference", ".md">>} : dir \o n \in DOMAIN fs

DirectoryVerdict == IF invocation.entry = "main" THEN all_valid ELSE returned

----------------------------------------------------------------------------
(* C18: no failure of a document escapes the per-document boundary:        *)
(* validate() and validate_single() return a boolean instead of raising    *)
(* (unreadable link target, box missing children, ...), and in a batch run *)
(* every remaining file is still validated after a file failed.            *)

C18_NoExceptionEscapes ==
    /\ pc # "raised"
    /\ result \in {Unrun, True, False}
    /\ \A i \in 1..Len(calls) : calls[i].res \in {True, False}
    /\ mpc # "crashed"
    /\ mpc \in {"exited", "returned", "crashed"} => files_to_validate = <<>>

----------------------------------------------------------------------------
(* C19: the command-line run exits with status 0 exactly when every        *)
(* requested file or directory was validated and passed, and with status 1 *)
(* otherwise: a failing file, a directory missing a required file, a       *)
(* requested path that does not exist.                                     *)

PassedCall(f) == \E i \in 1..Len(calls) : calls[i].file = f /\ calls[i].res = True

RequestedPassed(path) ==
    IF isdir(fs, path)
    THEN RequiredPresent(path) /\ \A f \in MdFilesIn(path) : PassedCall(f)
    ELSE path \in DOMAIN fs /\ PassedCall(path)

C19_ExitStatus ==
    (invocation.entry = "main" /\ exit_status # <<>>) =>
        /\ exit_status \in {<<0>>, <<1>>}
        /\ exit_status = <<0>> <=>
               \A k \in 1..Len(invocation.paths) : RequestedPassed(invocation.paths[k])

----------------------------------------------------------------------------
(* C20: the no-marker scan returns false exactly when at least one line of *)
(* the raw text contains FIXME in any capitalization, whatever the         *)
(* template, and it logs one diagnostic per such line, carrying the        *)
(* 1-based number of the line.                                             *)

FixmeWords == {"FIXME", "FiXmE", "fixme", "(FIXME)."}

FixmeLines ==
    {i \in 1..Len(markdown) : LineTokens(markdown[i]) \cap FixmeWords # {}}

IsFixmeDiag(d) == d.msg = "contains FIXME"

C20_FixmeScan ==
    Ran("no_fixme") =>
        LET found == FixmeLines
            diags == SelectSeq(log, IsFixmeDiag)
        IN  /\ tests["no_fixme"] \in {True, False}
            /\ tests["no_fixme"] = False <=> found # {}
            /\ Len(diags) = Cardinality(found)
            /\ {diags[j].line : j \in 1..Len(diags)} = found

(* a marker in the front matter and one in the last line of the body *)
C20_Witness ==
    /\ template = "topic"
    /\ tests["no_fixme"] = False
    /\ Len(markdown) = 7
    /\ FixmeLines = {3, 7}
    /\ markdown[3].value = "FIXME"
    /\ markdown[7].words = <<"text", "FiXmE">>

----------------------------------------------------------------------------
(* C21: within one validate() call every defective element gets its own    *)
(* diagnostic whatever failed before it: each top-level heading whose      *)
(* level is not 2, each front-matter key that is unrecognized or whose     *)
(* value fails its validator, and each broken link is logged even when an  *)
(* earlier heading, key or link has already failed, and the heading-order  *)
(* comparison runs even when an earlier heading error was found.           *)

LoggedWith(msg, arg) == \E i \in 1..Len(log) : log[i].msg = msg /\ log[i].arg = arg

CountLogged(msgs) == Cardinality({i \in 1..Len(log) : log[i].msg \in msgs})

LinkDiagnostics ==
    {"could not find the expected Markdown file", "could not find the anchor",
     "Could not find the linked asset file"}

OrderDiagnostics == {"Extra heading", "Missing heading", "Heading should be"}

(* a link is broken when the check of that link alone returns False *)
BrokenLinks(ls) == {i \in 1..Len(ls) : _validate_one_link(filename, fs, ls[i]).res = False}

LevelTwoTitles(hs) ==
    LET isL2(h) == h[1] = 2
        l2 == SelectSeq(hs, isL2)
    IN  [i \in 1..Len(l2) |-> l2[i][2]]

EveryKeyLogged ==
    Ran("header") =>
        LET h == ast.header
        IN  \A k \in DOMAIN h :
                /\ k \notin ExpectedKeys(template) => LoggedWith("Unrecognized label", <<k>>)
                /\ (k \in ExpectedKeys(template) /\ ~ValueValid(h, k))
                       => LoggedWith("does not follow expected format", <<k>>)

EveryHeadingLogged ==
    Ran("headings") =>
        LET hs == Headings
        IN  CountLogged({"should be level 2"}) = Cardinality({i \in 1..Len(hs) : hs[i][1] # 2})

OrderComparisonRuns ==
    (Ran("headings") /\ template \in {"index", "topic"}) =>
        LET hs == Headings
        IN  LevelTwoTitles(hs) # ExpectedSeq(template) => CountLogged(OrderDiagnostics) > 0

EveryLinkLogged ==
    tests["links"] \in {True, False} =>
        CountLogged(LinkDiagnostics) = Cardinality(BrokenLinks(Links))

C21_EveryDefectLogged ==
    /\ EveryKeyLogged
    /\ EveryHeadingLogged
    /\ OrderComparisonRuns
    /\ EveryLinkLogged

----------------------------------------------------------------------------
(* C22: a box-shape violation never aborts the run: when a document holds  *)
(* an objectives or prereq box with no child after its header, the box     *)
(* check reports a conformance violation (it returns False), the remaining *)
(* boxes are still checked, the link check is still executed, and          *)
(* validate() returns false only after all five sub-checks have run.       *)

ChildlessBoxes(bs) ==
    {i \in 1..Len(bs) : get_box_type(bs[i]) \in {"objectives", "prereq"} /\ Len(bs[i].c) = 1}

(* the boxes for which the emptiness test is reached and fails *)
ReportedEmpty(bs) ==
    {i \in 1..Len(bs) :
        /\ Len(bs[i].c) = 1
        /\ get_box_type(bs[i]) \in KnownBoxTypes
        /\ get_box_type(bs[i]) = "prereq" => get_box_title(bs[i]) = <<"Prerequisites">>}

(* the first childless box is named in a diagnostic of the box check *)
BoxViolationReported(bs) ==
    LET first == Min(ChildlessBoxes(bs))
    IN  \E i \in 1..Len(log) :
            /\ log[i].msg \in {"Box should not be empty",
                               "Title of box should be Prerequisites"}
            /\ log[i].arg = get_box_title(bs[first])

RemainingBoxesChecked(bs) ==
    CountLogged({"Box should not be empty"}) = Cardinality(ReportedEmpty(bs))

AllFiveRan == \A c \in Range(BaseTests) : Ran(c)

C22_ShapeViolationNeverAborts ==
    (pc = "done" /\ Ran("boxes")) =>
        LET bs == Boxes
        IN  ChildlessBoxes(bs) # {} =>
                /\ BoxViolationReported(bs)
                /\ RemainingBoxesChecked(bs)
                /\ Ran("links")
                /\ result = False
                /\ AllFiveRan

----------------------------------------------------------------------------
(* C23: for a non-empty front matter the front-matter check logs exactly   *)
(* one "Extra key" error for each present key that is not expected and     *)
(* exactly one "Missing key" error for each expected key that is absent;   *)
(* an expected key that is present is never reported as extra, and a       *)
(* present key never as missing.                                           *)

TimesLogged(msg, arg) ==
    Cardinality({i \in 1..Len(log) : log[i].msg = msg /\ log[i].arg = arg})

C23_ExtraAndMissingKeys ==
    Ran("header") =>
        LET present == DOMAIN ast.header
            expected == ExpectedKeys(template)
        IN  present # {} =>
                \A k \in Keys :
                    /\ TimesLogged("Extra key", <<k>>) =
                           IF k \in present \ expected THEN 1 ELSE 0
                    /\ TimesLogged("Missing key", <<k>>) =
                           IF k \in expected \ present THEN 1 ELSE 0

----------------------------------------------------------------------------
(* C24: for a local link whose path ends in .htm or .html the link check   *)
(* looks on disk for the sibling Markdown file (the resolved path with     *)
(* only the final extension replaced by .md) and fails with the            *)
(* missing-Markdown-file message when it does not exist; no other part of  *)
(* the path is altered and the .htm/.html file itself is never required.   *)

HtmlExtensions == {".htm", ".html"}

IsHtmlLink(address) ==
    /\ ~StartsThirdParty(address)
    /\ SplitDest(address) # <<>>
    /\ Last(SplitDest(address)) \in HtmlExtensions

(* the resolved path of the link with its extension replaced *)
SiblingMd(address) ==
    LET dest == SplitDest(address)
    IN  lesson_dir(filename) \o SubSeq(dest, 1, Len(dest) - 1) \o <<".md">>

HasAnchor(address) == \E i \in 1..Len(address) : address[i] = "#"

C24_HtmlSiblingMarkdown ==
    (tests["links"] \in {True, False} /\ Len(Links) = 1 /\ IsHtmlLink(Links[1])) =>
        LET sibling == SiblingMd(Links[1])
        IN  /\ fsAccess = {sibling}
            /\ sibling \notin DOMAIN fs =>
                   /\ tests["links"] = False
                   /\ LoggedWith("could not find the expected Markdown file", sibling)
            /\ (sibling \in DOMAIN fs /\ ~HasAnchor(Links[1])) => tests["links"] = True

----------------------------------------------------------------------------
(* C25: a link whose target has an empty path and an anchor (#slug) is     *)
(* resolved to the very document being validated (the same file path, not  *)
(* a path with the directory applied twice) and passes only if slug is in  *)
(* the anchor set of that document.                                        *)

IsSelfAnchor(address) ==
    /\ Len(address) > 1
    /\ address[1] = "#"
    /\ SubSeq(address, 2, Len(address)) \in Slugs

SelfSlug(address) == SubSeq(address, 2, Len(address))

ResolvedToSelf == filename # NoFile => fsAccess = {filename}

PassesOnlyWithAnchor == tests["links"] = True => SelfSlug(Links[1]) \in ast.anchors

C25_SelfAnchor ==
    (Ran("links") /\ Len(Links) = 1 /\ IsSelfAnchor(Links[1])) =>
        /\ tests["links"] \in {True, False}
        /\ ResolvedToSelf
        /\ PassesOnlyWithAnchor

----------------------------------------------------------------------------
(* C26: link validation has recursion depth 1: validating a document opens *)
(* only the immediate targets of its own links, to read their anchor sets, *)
(* and runs no check (in particular no link check) on a target; so         *)
(* validate() ends for every finite set of documents, also when documents  *)
(* link to themselves or to each other in a cycle.                         *)

(* the paths the document's own links are resolved to *)
ImmediateTargets(ls) == UNION {_validate_one_link(filename, fs, ls[i]).acc : i \in 1..Len(ls)}

OwnLinkDiagnostics(ls) ==
    UNION {Range(_validate_one_link(filename, fs, ls[i]).log) : i \in 1..Len(ls)}

----------------------------------------------------------------------------
(* C27: when the expected-boxes entry of a template carries a title        *)
(* constraint, a box of that type with another title fails the box check:  *)
(* on a topic page an objectives box titled anything other than "Learning  *)
(* Objectives" is rejected, while callout and challenge boxes (no          *)
(* constraint) pass with any title.                                        *)

TitleConstraint(tpl, t) ==
    CASE tpl = "index" /\ t = "prereq" -> <<"Prerequisites">>
      [] tpl = "topic" /\ t = "objectives" -> <<"Learning", "Objectives">>
      [] OTHER -> None

WrongTitle(tpl, box) ==
    /\ TitleConstraint(tpl, get_box_type(box)) # None
    /\ get_box_title(box) # TitleConstraint(tpl, get_box_type(box))

(* a topic page with its objectives box and otherwise only well-formed     *)
(* callout and challenge boxes                                             *)
OnlyFreeTitles(bs) ==
    /\ Cardinality({i \in 1..Len(bs) : get_box_type(bs[i]) = "objectives"}) = 1
    /\ \A i \in 1..Len(bs) :
           /\ get_box_type(bs[i]) \in {"objectives", "callout", "challenge"}
           /\ get_box_level(bs[i]) = 2
           /\ ShapeOK(bs[i])
           /\ ~WrongTitle("topic", bs[i])

C27_TitleConstraint ==
    Ran("boxes") =>
        LET bs == Boxes
        IN  /\ (\E i \in 1..Len(bs) : WrongTitle(template, bs[i])) => Fails("boxes")
            /\ (template = "topic" /\ OnlyFreeTitles(bs)) => Passes("boxes")

----------------------------------------------------------------------------
(* C28: in extract(), over any sequence of input lines, the non-blank      *)
(* lines written are exactly the input lines (without their trailing white *)
(* space) that start with '>' and lie at or after a challenge title line   *)
(* inside the same unbroken run of consecutive '>' lines, in input order;  *)
(* the echo flag is true only inside such a run, a line not starting with  *)
(* '>' always turns it off, and no line outside such a run is written.     *)

StartsWithQuote(line) == line # <<>> /\ Head(line) = ">"

IsChallengeTitle(line) ==
    /\ StartsWithQuote(line)
    /\ Len(line) >= 4
    /\ line[2] \in {" ", "\n"}
    /\ \E k \in 4..Len(line) : line[k] = "{.challenge}"

(* line i lies at or after a title inside one run of '>' lines *)
InChallengeRun(lines, i) ==
    \E j \in 1..i :
        /\ IsChallengeTitle(lines[j])
        /\ \A k \in j..i : StartsWithQuote(lines[k])

WithoutTrailingSpace(line) ==
    LET keep == {i \in 1..Len(line) : line[i] \notin {" ", "\n"}}
    IN  IF keep = {} THEN <<>> ELSE SubSeq(line, 1, MaxOf(keep))

IsNonBlank(line) == line # <<>>

(* the lines of the first n that ought to have been written, in order *)
RECURSIVE Selected(_, _)
Selected(lines, n) ==
    IF n = 0 THEN <<>>
    ELSE Selected(lines, n - 1)
             \o (IF InChallengeRun(lines, n) THEN <<WithoutTrailingSpace(lines[n])>>
                 ELSE <<>>)

C28_ExtractEchoesChallengeRuns ==
    /\ SelectSeq(writer, IsNonBlank) = Selected(reader, position)
    /\ echo <=> (position > 0 /\ InChallengeRun(reader, position))
    /\ (position > 0 /\ ~StartsWithQuote(reader[position])) => ~echo

(* a challenge, a line outside it, then a quoted line that is not echoed *)
C28_Witness ==
    /\ epc = "done"
    /\ Len(reader) = 3
    /\ IsChallengeTitle(reader[1])
    /\ ~StartsWithQuote(reader[2])
    /\ reader[3] = <<">", " ", "text", "\n">>
    /\ writer = <<WithoutTrailingSpace(reader[1]), EmptyLine, EmptyLine>>

====
